---- MODULE Spec2Model ----
(***************************************************************************)
(* Request governance layer of the RL Futures backend: the rate limiter    *)
(* (security.py), the health monitor (health.py), the metrics collector    *)
(* (metrics.py) and the request hooks that wire them (app.py).             *)
(*                                                                         *)
(* Time is int(time.time()): whole seconds.  Percentages and success rates *)
(* are compared exactly (rates as cross-multiplied integers).              *)
(***************************************************************************)
EXTENDS Integers, Sequences, FiniteSets, TLC

VARIABLES
    now,            \* int(time.time()), the clock every component reads
    requests,       \* RateLimiter.requests: ip -> list of admission timestamps
    admitted,       \* history: ip -> timestamps of the calls that returned True
    rejected,       \* history: ip -> number of calls that returned False
    rl_pc,          \* thread -> the line of is_allowed it is about to execute
    rl_frame,       \* thread -> the locals of its is_allowed call
    hm_metrics,     \* HealthMonitor.metrics, the request outcome tally
    health_history, \* HealthMonitor.health_history
    call,           \* the last operation called, with its inputs
    ret,            \* what that operation returned
    exc,            \* the exception that escaped it ("none" when it returned)
    check_log,      \* history: the status each get_system_health call returned
    hm_lock,        \* HealthMonitor._lock: the thread holding it, or "free"
    hm_pc,          \* thread -> the line of the HealthMonitor method it is at
    hm_frame,       \* thread -> the locals of that call
    mc_metrics,     \* MetricsCollector.metrics: key -> MetricValue
    resp,           \* the last HTTP response, with the request it answers
    completed,      \* history: number of HTTP requests answered so far
    route_admitted, \* history: ip -> endpoint -> times the limiter let it through
    mc_log,         \* history: the MetricsCollector updates that have completed
    snapshot,       \* the mapping the last get_all_metrics call returned
    shared,         \* the keys of snapshot whose MetricValue object the collector still holds
    mc_lock,        \* MetricsCollector._lock: the thread holding it, or "free"
    mc_pc,          \* thread -> the line of the MetricsCollector method it is at
    mc_frame        \* thread -> the locals of that call

rlVars == <<requests, admitted, rejected, rl_pc, rl_frame>>
hmVars == <<hm_metrics, health_history, call, ret, exc, check_log,
           hm_lock, hm_pc, hm_frame>>
appVars == <<mc_metrics, resp, completed, route_admitted>>
mcVars == <<mc_log, snapshot, shared, mc_lock, mc_pc, mc_frame>>
vars == <<now, requests, admitted, rejected, rl_pc, rl_frame,
          hm_metrics, health_history, call, ret, exc, check_log,
          hm_lock, hm_pc, hm_frame,
          mc_metrics, resp, completed, route_admitted,
          mc_log, snapshot, shared, mc_lock, mc_pc, mc_frame>>

(***************************************************************************)
(* Bounds of the model.  max_requests and window_size are 100 and 60 in    *)
(* RateLimiter.__init__; they are scaled down so that a full window and    *)
(* its ageing-out happen within MaxTime seconds.                           *)
(***************************************************************************)
MaxTime == 4
max_requests == 2
window_size == 2

IPs == {"10.0.0.1", "10.0.0.2"}
Threads == {"t1", "t2"}

Times == 0..MaxTime

None == [none |-> TRUE]

(***************************************************************************)
(* The clock.                                                              *)
(***************************************************************************)
Tick ==
    /\ now < MaxTime
    /\ now' = now + 1

(***************************************************************************)
(* RateLimiter.is_allowed, line by line.                                   *)
(***************************************************************************)
WindowStart_early(current_time) == current_time - window_size + 1

WindowStart(current_time) == current_time - window_size

Purge_inclusive(window, window_start) ==
    SelectSeq(window, LAMBDA t : t >= window_start)

\* the list comprehension of line 120
Purge(window, window_start) == SelectSeq(window, LAMBDA t : t > window_start)

CleanOldEntries_everyKey(reqs, ip, window_start) ==
    [k \in DOMAIN reqs |-> Purge(reqs[k], window_start)]

CleanOldEntries(reqs, ip, window_start) ==
    IF ip \in DOMAIN reqs
    THEN [reqs EXCEPT ![ip] = Purge(@, window_start)]
    ELSE reqs

EnsureKey(reqs, ip) ==
    IF ip \notin DOMAIN reqs THEN reqs @@ (ip :> <<>>) ELSE reqs

LimitReached_offByOne(window) == Len(window) > max_requests
LimitReached(window) == Len(window) >= max_requests

\* the whole call: the new requests mapping and the returned boolean
is_allowed(reqs, ip, current_time) ==
    LET cleaned == CleanOldEntries(reqs, ip, WindowStart(current_time))
        ensured == EnsureKey(cleaned, ip)
    IN  IF LimitReached(ensured[ip])
        THEN [allowed |-> FALSE, requests |-> ensured]
        ELSE [allowed |-> TRUE,
              requests |-> [ensured EXCEPT ![ip] = Append(@, current_time)]]

\* RateLimiter.__init__, and no call in progress
RLIdle ==
    /\ requests = <<>>
    /\ admitted = [ip \in IPs |-> <<>>]
    /\ rejected = [ip \in IPs |-> 0]
    /\ rl_pc = [th \in Threads |-> "idle"]
    /\ rl_frame = [th \in Threads |-> None]

(***************************************************************************)
(* HealthMonitor (health.py).                                              *)
(*                                                                         *)
(* Percentages are whole percents.  A success rate is the exact fraction   *)
(* [num, den]; the running average latency is kept as a reduced fraction.  *)
(***************************************************************************)
max_history_size == 3
RecentN == 2

RECURSIVE Gcd(_, _)
Gcd(a, b) == IF b = 0 THEN a ELSE Gcd(b, a % b)

Frac(n, d) == LET g == Gcd(n, d) IN [num |-> n \div g, den |-> d \div g]

\* HealthMonitor.__init__, lines 23-29
InitialTally ==
    [requests_total |-> 0, requests_successful |-> 0, requests_failed |-> 0,
     average_response_time |-> Frac(0, 1)]

HMInitState ==
    /\ hm_metrics = InitialTally
    /\ health_history = <<>>
    /\ call = [op |-> "init"]
    /\ ret = None
    /\ exc = "none"
    /\ check_log = <<>>
    /\ hm_lock = "free"
    /\ hm_pc = [th \in Threads |-> "idle"]
    /\ hm_frame = [th \in Threads |-> None]

\* (current_avg * (total_requests - 1) + response_time) / total_requests
NewAverage(current_avg, total_requests, response_time) ==
    Frac(current_avg.num * (total_requests - 1) + response_time * current_avg.den,
         current_avg.den * total_requests)

\* line 103
CountRequest(m) == [m EXCEPT !.requests_total = @ + 1]

CountOutcome_successOnly(m, success) ==
    IF success THEN [m EXCEPT !.requests_successful = @ + 1] ELSE m

\* lines 104-107
CountOutcome(m, success) ==
    IF success
    THEN [m EXCEPT !.requests_successful = @ + 1]
    ELSE [m EXCEPT !.requests_failed = @ + 1]

\* lines 109-114
UpdateAverage(m, response_time) ==
    [m EXCEPT !.average_response_time =
        NewAverage(m.average_response_time, m.requests_total, response_time)]

\* HealthMonitor.record_request: the tally after one completed request
record_request(m, success, response_time) ==
    UpdateAverage(CountOutcome(CountRequest(m), success), response_time)

\* HealthMonitor.get_metrics: self.metrics.copy(), a dict of numbers
get_metrics(m) == m

\* HealthMonitor.reset_metrics
reset_tally(m) == InitialTally

\* HealthMonitor._calculate_success_rate
calculate_success_rate(m) ==
    IF m.requests_total = 0
    THEN [num |-> 1, den |-> 1]
    ELSE [num |-> m.requests_successful, den |-> m.requests_total]

\* rate < pct / 100, exactly
RateBelow(rate, pct) == 100 * rate.num < pct * rate.den

DegradedCond_inclusive(cpu, mem, disk, rate) ==
    cpu >= 90 \/ mem >= 90 \/ disk >= 90 \/ RateBelow(rate, 95)
DegradedCond(cpu, mem, disk, rate) ==
    cpu > 90 \/ mem > 90 \/ disk > 90 \/ RateBelow(rate, 95)

UnhealthyCond_lowRate(cpu, mem, disk, rate) ==
    cpu > 95 \/ mem > 95 \/ disk > 95 \/ RateBelow(rate, 80)
UnhealthyCond(cpu, mem, disk, rate) ==
    cpu > 95 \/ mem > 95 \/ disk > 95 \/ RateBelow(rate, 90)

\* lines 39-71: 'healthy', overwritten by 'degraded', overwritten by 'unhealthy'
HealthStatus(cpu, mem, disk, m) ==
    LET s0 == "healthy"
        s1 == IF DegradedCond(cpu, mem, disk, calculate_success_rate(m))
              THEN "degraded" ELSE s0
    IN  IF UnhealthyCond(cpu, mem, disk, calculate_success_rate(m))
        THEN "unhealthy" ELSE s1

\* the dictionary of lines 39-62 with its final status
Snapshot(cpu, mem, disk, m, t) ==
    [status |-> HealthStatus(cpu, mem, disk, m),
     timestamp |-> t,
     cpu_percent |-> cpu,
     memory_percent |-> mem,
     disk_percent |-> disk,
     requests_total |-> m.requests_total,
     requests_successful |-> m.requests_successful,
     requests_failed |-> m.requests_failed,
     success_rate |-> calculate_success_rate(m),
     average_response_time |-> m.average_response_time]

\* the dictionary of lines 80-85
ErrorSnapshot(reason, t) ==
    [status |-> "error", timestamp |-> t, error |-> reason]

\* HealthMonitor._store_health_history
store_health_history(history, health_status) ==
    LET appended == Append(history, health_status)
    IN  IF Len(appended) > max_history_size THEN Tail(appended) ELSE appended

\* lines 39-76: the samples were taken, the snapshot is stored and returned
SampledPath(m, history, cpu, mem, disk, t) ==
    LET health_status == Snapshot(cpu, mem, disk, m, t)
    IN  [ret |-> health_status, exc |-> "none",
         health_history |-> store_health_history(history, health_status)]

get_system_health_noHandler(m, history, cpu, mem, disk, failure, t) ==
    IF failure # "none"
    THEN [ret |-> None, exc |-> failure, health_history |-> history]
    ELSE SampledPath(m, history, cpu, mem, disk, t)

\* HealthMonitor.get_system_health, run to completion.  failure names the
\* psutil call that raised ("none": all three samples were taken); the whole
\* body is inside the try, and the handler of lines 78-85 returns the error
\* dictionary without storing it.
get_system_health(m, history, cpu, mem, disk, failure, t) ==
    IF failure # "none"
    THEN [ret |-> ErrorSnapshot(failure, t), exc |-> "none",
          health_history |-> history]
    ELSE SampledPath(m, history, cpu, mem, disk, t)

\* psutil.cpu_percent(interval=1) blocks for one second before it returns
SamplingSeconds(failure) == IF failure = "cpu_percent" THEN 0 ELSE 1

GetSystemHealthCall(cpu, mem, disk, failure) ==
    LET t == now + SamplingSeconds(failure)
        r == get_system_health(hm_metrics, health_history, cpu, mem, disk,
                               failure, t)
    IN  /\ now' = t
        /\ call' = [op |-> "get_system_health", failure |-> failure]
        /\ check_log' = Append(check_log, IF r.exc = "none" THEN r.ret.status ELSE "raised")
        /\ ret' = r.ret
        /\ exc' = r.exc
        /\ health_history' = r.health_history
        /\ UNCHANGED <<hm_metrics, hm_lock, hm_pc, hm_frame>>

checks == Len(check_log)

\* the last n elements of a list: list[-n:]
LastN(seq, n) == IF Len(seq) <= n THEN seq ELSE SubSeq(seq, Len(seq) - n + 1, Len(seq))

StatusCounts(recent_checks) ==
    [s \in {recent_checks[i].status : i \in 1..Len(recent_checks)} |->
        Cardinality({i \in 1..Len(recent_checks) : recent_checks[i].status = s})]

\* HealthMonitor._get_health_summary; {} is the empty function <<>>
get_health_summary(history) ==
    IF history = <<>>
    THEN <<>>
    ELSE LET recent_checks == LastN(history, RecentN)
         IN  [recent_status_distribution |-> StatusCounts(recent_checks),
              total_checks |-> Len(history),
              last_10_statuses |->
                  [i \in 1..Len(recent_checks) |-> recent_checks[i].status]]

RecordRequestCall(success, response_time) ==
    /\ hm_metrics' = record_request(hm_metrics, success, response_time)
    /\ call' = [op |-> "record_request"]
    /\ ret' = None
    /\ exc' = "none"
    /\ UNCHANGED <<health_history, check_log, hm_lock, hm_pc, hm_frame>>

HealthSummaryCall ==
    /\ call' = [op |-> "_get_health_summary"]
    /\ ret' = get_health_summary(health_history)
    /\ exc' = "none"
    /\ UNCHANGED <<hm_metrics, health_history, check_log, hm_lock, hm_pc, hm_frame>>

(***************************************************************************)
(* MetricsCollector (metrics.py).                                          *)
(*                                                                         *)
(* A Python string is the sequence of the pieces between its underscores:  *)
(* "http_requests_total" is <<"http", "requests", "total">>, so that       *)
(* f"{a}_{b}" is the concatenation a \o b.  Durations and bucket           *)
(* boundaries are tenths of a second.                                      *)
(***************************************************************************)
\* the object None where a string is expected
NoneValue == <<"<None>">>

\* str(v) inside an f-string
Str(v) == IF v = NoneValue THEN <<"None">> ELSE v

\* the label keys the module uses, as sorted() orders them
LabelKeyOrder ==
    <<"endpoint", "event_type", "file_type", "le", "method", "risk_level",
      "status", "success", "validation_type">>

KeyPieces(k) ==
    CASE k = "event_type" -> <<"event", "type">>
      [] k = "file_type" -> <<"file", "type">>
      [] k = "risk_level" -> <<"risk", "level">>
      [] k = "validation_type" -> <<"validation", "type">>
      [] OTHER -> <<k>>

\* sorted(labels.items()), as the list of keys
SortedKeys(labels) == SelectSeq(LabelKeyOrder, LAMBDA k : k \in DOMAIN labels)

RECURSIVE JoinLabels(_, _)
\* "_".join(f"{k}_{v}" for k, v in sorted_labels)
JoinLabels(keys, labels) ==
    IF keys = <<>> THEN <<>>
    ELSE KeyPieces(Head(keys)) \o Str(labels[Head(keys)])
             \o JoinLabels(Tail(keys), labels)

\* MetricsCollector._get_metric_key; no labels is the empty mapping <<>>
get_metric_key(name, labels) ==
    IF DOMAIN labels = {} THEN name
    ELSE name \o JoinLabels(SortedKeys(labels), labels)

MetricValue(value, timestamp, labels) ==
    [value |-> value, timestamp |-> timestamp, labels |-> labels]

\* self.metrics[key] = v
Put(m, key, v) == [k \in DOMAIN m \cup {key} |-> IF k = key THEN v ELSE m[k]]

\* if key not in self.metrics: self.metrics[key] = MetricValue(0, now, labels)
Seeded(m, key, labels, t) ==
    IF key \notin DOMAIN m THEN Put(m, key, MetricValue(0, t, labels)) ELSE m

increment_counter_overwrite(m, name, labels, value, t) ==
    LET key == get_metric_key(name, labels)
        seeded == Seeded(m, key, labels, t)
    IN  [seeded EXCEPT ![key].value = value, ![key].timestamp = t]

\* MetricsCollector.increment_counter
increment_counter(m, name, labels, value, t) ==
    LET key == get_metric_key(name, labels)
        seeded == Seeded(m, key, labels, t)
    IN  [seeded EXCEPT ![key].value = @ + value, ![key].timestamp = t]

\* MetricsCollector.set_gauge
set_gauge(m, name, value, labels, t) ==
    Put(m, get_metric_key(name, labels), MetricValue(value, t, labels))

\* buckets = [0.1, 0.5, 1.0, 2.0, 5.0, 10.0, 30.0, 60.0], in tenths
Buckets == <<1, 5, 10, 20, 50, 100, 300, 600>>

\* str(bucket)
BucketText(bucket) ==
    CASE bucket = 1 -> <<"0.1">>
      [] bucket = 5 -> <<"0.5">>
      [] bucket = 10 -> <<"1.0">>
      [] bucket = 20 -> <<"2.0">>
      [] bucket = 50 -> <<"5.0">>
      [] bucket = 100 -> <<"10.0">>
      [] bucket = 300 -> <<"30.0">>
      [] bucket = 600 -> <<"60.0">>

\* lines 52-53: the labels of one bucket series
BucketLabels(labels, bucket) ==
    [k \in DOMAIN labels \cup {"le"} |->
        IF k = "le" THEN BucketText(bucket) ELSE labels[k]]

\* line 54
BucketKey(name, labels, bucket) ==
    get_metric_key(name \o <<"bucket">>, BucketLabels(labels, bucket))

RecordBucket_strict(m, name, value, labels, bucket, t) ==
    LET bucket_labels == BucketLabels(labels, bucket)
        bucket_key == BucketKey(name, labels, bucket)
        seeded == Seeded(m, bucket_key, bucket_labels, t)
    IN  IF value < bucket
        THEN [seeded EXCEPT ![bucket_key].value = @ + 1,
                            ![bucket_key].timestamp = t]
        ELSE seeded

\* one turn of the loop of lines 51-60
RecordBucket(m, name, value, labels, bucket, t) ==
    LET bucket_labels == BucketLabels(labels, bucket)
        bucket_key == BucketKey(name, labels, bucket)
        seeded == Seeded(m, bucket_key, bucket_labels, t)
    IN  IF value <= bucket
        THEN [seeded EXCEPT ![bucket_key].value = @ + 1,
                            ![bucket_key].timestamp = t]
        ELSE seeded

RECURSIVE RecordBuckets(_, _, _, _, _, _)
RecordBuckets(m, name, value, labels, buckets, t) ==
    IF buckets = <<>> THEN m
    ELSE RecordBuckets(RecordBucket(m, name, value, labels, Head(buckets), t),
                       name, value, labels, Tail(buckets), t)

\* lines 62-74 of record_histogram: the _sum and _count series
RecordSumCount(m, name, value, labels, t) ==
    LET sum_key == get_metric_key(name \o <<"sum">>, labels)
        count_key == get_metric_key(name \o <<"count">>, labels)
        s1 == Seeded(m, sum_key, labels, t)
        s2 == Seeded(s1, count_key, labels, t)
        s3 == [s2 EXCEPT ![sum_key].value = @ + value]
        s4 == [s3 EXCEPT ![count_key].value = @ + 1]
        s5 == [s4 EXCEPT ![sum_key].timestamp = t]
    IN  [s5 EXCEPT ![count_key].timestamp = t]

\* MetricsCollector.record_histogram
record_histogram(m, name, value, labels, t) ==
    RecordSumCount(RecordBuckets(m, name, value, labels, Buckets, t),
                   name, value, labels, t)

\* MetricsCollector.get_metric: self.metrics.get(key), None when absent
get_metric(m, name, labels) ==
    LET key == get_metric_key(name, labels)
    IN  IF key \in DOMAIN m THEN m[key] ELSE None

\* MetricsCollector.get_all_metrics: self.metrics.copy() is a new dict with
\* the same keys, each referring to the MetricValue object the collector holds
get_all_metrics(m) == m

\* MetricsCollector.reset_metrics: self.metrics.clear()
reset_metrics(m) == <<>>

\* key.endswith('_' + word) and key.startswith(word + '_')
EndsWith(key, word) == Len(key) >= 2 /\ key[Len(key)] = word
StartsWith(key, word) == Len(key) >= 2 /\ key[1] = word

\* lines 118-124 (and 247-265 of get_metrics_summary): the family of a key
Family(key) ==
    IF EndsWith(key, "sum") \/ EndsWith(key, "count") \/ EndsWith(key, "bucket")
    THEN "histograms"
    ELSE IF StartsWith(key, "counter") THEN "counters" ELSE "gauges"

\* the keys of one family, as the loops of lines 118-124 collect them
FamilyKeys(m, family) == {key \in DOMAIN m : Family(key) = family}

\* MetricsCollector._format_labels: the (key, escaped value) pairs in key
\* order.  value.replace(...) exists on strings only: a value that is not a
\* string raises AttributeError.  The label values of this model hold
\* neither a backslash nor a quote, so the two replace calls return them as
\* they are.
format_labels(labels) ==
    IF \E k \in DOMAIN labels : labels[k] = NoneValue
    THEN [exc |-> "AttributeError", ret |-> None]
    ELSE [exc |-> "none",
          ret |-> [i \in 1..Len(SortedKeys(labels)) |->
                      <<SortedKeys(labels)[i], labels[SortedKeys(labels)[i]]>>]]

\* one line of the exposition: family{label_str} value
ExpositionLine(family, metric) ==
    [family |-> family, labels |-> format_labels(metric.labels).ret,
     value |-> metric.value]

\* MetricsCollector.generate_prometheus_format: the series of each family
\* with the line written for it (the header lines and the uptime gauge hold
\* no state of the collector).  An exception of _format_labels is not caught.
generate_prometheus_format(m) ==
    IF \E key \in DOMAIN m : format_labels(m[key].labels).exc # "none"
    THEN [exc |-> "AttributeError", ret |-> None]
    ELSE [exc |-> "none",
          ret |-> [family \in {"counters", "gauges", "histograms"} |->
                      [key \in FamilyKeys(m, family) |->
                          ExpositionLine(family, m[key])]]]

\* metrics.get_metrics_summary
get_metrics_summary(m) ==
    LET all_metrics == get_all_metrics(m)
    IN  [total_metrics |-> Cardinality(DOMAIN all_metrics),
         counters |-> [key \in FamilyKeys(all_metrics, "counters") |-> all_metrics[key]],
         gauges |-> [key \in FamilyKeys(all_metrics, "gauges") |-> all_metrics[key]],
         histograms |-> [key \in FamilyKeys(all_metrics, "histograms") |-> all_metrics[key]]]

\* metrics.increment_request_counter
increment_request_counter(m, method, endpoint, status_code, t) ==
    increment_counter(m, <<"http", "requests", "total">>,
                      [k \in {"method", "endpoint", "status"} |->
                          CASE k = "method" -> method
                            [] k = "endpoint" -> endpoint
                            [] k = "status" -> status_code],
                      1, t)

\* metrics.record_request_duration
record_request_duration(m, method, endpoint, duration, t) ==
    record_histogram(m, <<"http", "request", "duration", "seconds">>, duration,
                     [k \in {"method", "endpoint"} |->
                         IF k = "method" THEN method ELSE endpoint],
                     t)

(***************************************************************************)
(* The Flask application (app.py) and its decorators (security.py).        *)
(***************************************************************************)
Endpoints == {"index", "health", "upload_file", "metrics"}

\* request.endpoint: the name of the view function, None when no route matched
EndpointText(route) ==
    CASE route = "index" -> <<"index">>
      [] route = "health" -> <<"health">>
      [] route = "upload_file" -> <<"upload", "file">>
      [] route = "metrics" -> <<"metrics">>
      [] OTHER -> NoneValue

Method(route) == IF route = "upload_file" THEN <<"POST">> ELSE <<"GET">>

\* the limits the routes declare: @rate_limit(max_requests=..., window=...).
\* '/' and '/health' declare the limiter's own 100 per 60 s, '/api/upload'
\* declares 10 per 60 s.
upload_max_requests == 1

DeclaredMax(route) == IF route = "upload_file" THEN upload_max_requests ELSE max_requests
DeclaredWindow(route) == window_size

\* security.rate_limit: the decorator's arguments are not used, the one
\* module-level limiter decides with its own max_requests and window_size
rate_limit(reqs, ip, declared_max, declared_window, t) == is_allowed(reqs, ip, t)

\* request.get_json() of a POST with a JSON body: kind is the JSON type,
\* has is what Python's "in" finds in the value (the keys of an object, the
\* elements of an array, the substrings of a string), truthy is bool(value).
\* The values under the keys of an object are well-formed strings.
JsonBody(kind, has, truthy) == [kind |-> kind, has |-> has, truthy |-> truthy]

UploadBodies ==
    { JsonBody("object", {"filename", "data"}, TRUE),
      JsonBody("object", {"filename"}, TRUE),
      JsonBody("object", {"data"}, TRUE),
      JsonBody("object", {}, FALSE),
      JsonBody("null", {}, FALSE),
      JsonBody("array", {}, FALSE),
      JsonBody("array", {"x"}, TRUE),
      JsonBody("array", {"filename", "data"}, TRUE),
      JsonBody("string", {"x"}, TRUE),
      JsonBody("string", {"filename", "data"}, TRUE),
      JsonBody("number", {}, FALSE),
      JsonBody("number", {}, TRUE) }

\* @require_validation(['filename', 'data'])
RequiredUploadFields == <<"filename", "data">>

\* what a view returns: a status code and the JSON body
Reply(status_code, body) == [status |-> status_code, body |-> body]

\* lines 143-146 of require_validation: data = request.get_json() or {}, then
\* "field not in data" for each required field in turn.  "in" raises
\* TypeError on a number; the first missing field raises SecurityError.
MissingField(required_fields, body) ==
    LET data == IF body.truthy THEN body ELSE JsonBody("object", {}, FALSE)
        missing == SelectSeq(required_fields, LAMBDA field : field \notin data.has)
    IN  IF required_fields # <<>> /\ data.kind = "number" THEN [exc |-> "TypeError"]
        ELSE IF missing # <<>>
             THEN [exc |-> "SecurityError", field |-> missing[1]]
             ELSE [exc |-> "none"]

\* app.upload_file, lines 138-164: data['filename'] and data['data'] exist on
\* an object only; indexing an array or a string with a string raises
\* TypeError, which the view's "except Exception" answers with 500
upload_file(body) ==
    IF body.kind = "object"
    THEN Reply(200, [status |-> "processed"])
    ELSE Reply(500, [error |-> "Internal server error"])

\* security.require_validation around a view: the reply, and whether the
\* view ran
require_validation(required_fields, body) ==
    LET v == MissingField(required_fields, body)
    IN  CASE v.exc = "SecurityError" ->
                 [reply |-> Reply(400, [error |-> <<"Missing required field", v.field>>]),
                  stages |-> <<"require_validation">>]
          [] v.exc = "TypeError" ->
                 [reply |-> Reply(500, [error |-> "Internal server error"]),
                  stages |-> <<"require_validation">>]
          [] OTHER ->
                 [reply |-> upload_file(body),
                  stages |-> <<"require_validation", "upload_file">>]

TooManyRequests == Reply(429, [error |-> "Rate limit exceeded"])

upload_file_route_validationFirst(allowed, body) ==
    LET inner == require_validation(RequiredUploadFields, body)
    IN  IF inner.reply.status # 200
        THEN inner
        ELSE IF ~allowed
             THEN [reply |-> TooManyRequests,
                   stages |-> <<"require_validation", "rate_limit">>]
             ELSE [reply |-> inner.reply,
                   stages |-> <<"require_validation", "rate_limit", "upload_file">>]

\* the view registered for POST /api/upload, lines 133-136 of app.py:
\* rate_limit(...)(require_validation([...])(upload_file)); allowed is the
\* verdict of rate_limiter.is_allowed
upload_file_route(allowed, body) ==
    IF ~allowed
    THEN [reply |-> TooManyRequests, stages |-> <<"rate_limit">>]
    ELSE LET inner == require_validation(RequiredUploadFields, body)
         IN  [reply |-> inner.reply, stages |-> <<"rate_limit">> \o inner.stages]

\* app.metrics, lines 96-105: the exposition, or 500 when the export raises
metrics_view(m) ==
    LET r == generate_prometheus_format(m)
    IN  IF r.exc = "none"
        THEN Reply(200, r.ret)
        ELSE Reply(500, [error |-> "Failed to export metrics"])

\* a view behind @rate_limit alone
LimitedRoute(allowed, route, reply) ==
    IF ~allowed
    THEN [reply |-> TooManyRequests, stages |-> <<"rate_limit">>]
    ELSE [reply |-> reply, stages |-> <<"rate_limit", route>>]

StatusText(code) ==
    CASE code = 200 -> <<"200">>
      [] code = 400 -> <<"400">>
      [] code = 404 -> <<"404">>
      [] code = 429 -> <<"429">>
      [] code = 500 -> <<"500">>

after_request_successOnly(m, method, endpoint, status_code, duration, t) ==
    IF status_code >= 400 THEN m
    ELSE record_request_duration(
             increment_request_counter(m, method, endpoint, StatusText(status_code), t),
             method, endpoint, duration, t)

\* app.after_request: the two metrics calls (the logging calls keep no state
\* of this model); health.record_request is imported and never called
after_request(m, method, endpoint, status_code, duration, t) ==
    record_request_duration(
        increment_request_counter(m, method, endpoint, StatusText(status_code), t),
        method, endpoint, duration, t)

AppIdle ==
    /\ mc_metrics = <<>>
    /\ resp = None
    /\ completed = 0
    /\ route_admitted = [ip \in IPs |-> [e \in Endpoints |-> <<>>]]

\* MetricsCollector.__init__, no call in progress, no mapping handed out
MCIdle ==
    /\ mc_log = <<>>
    /\ snapshot = <<>>
    /\ shared = {}
    /\ mc_lock = "free"
    /\ mc_pc = [th \in Threads |-> "idle"]
    /\ mc_frame = [th \in Threads |-> None]

\* what every answered request leaves behind: the metrics of after_request
\* and the response, with the stages that ran and the JSON body it carried
Answer(ip, route, served, json, duration, t) ==
    /\ mc_metrics' = after_request(mc_metrics, Method(route), EndpointText(route),
                                   served.reply.status, duration, t)
    /\ resp' = [ip |-> ip, route |-> route, status |-> served.reply.status,
                at |-> t, body |-> served.reply.body, stages |-> served.stages,
                json |-> json]
    /\ completed' = completed + 1
    /\ UNCHANGED mcVars

Admit(ip, route) ==
    route_admitted' = [route_admitted EXCEPT ![ip][route] = Append(@, now)]

\* a request whose path matches no route: 404 from the error handler
NotFoundRequest(ip, duration) ==
    /\ Answer(ip, "none",
              [reply |-> Reply(404, [error |-> "Endpoint not found"]), stages |-> <<>>],
              None, duration, now)
    /\ UNCHANGED <<now, rlVars, hmVars, route_admitted>>

\* a request the limiter turns away: 429
LimitedRequest(ip, route, body, duration) ==
    LET r == rate_limit(requests, ip, DeclaredMax(route), DeclaredWindow(route), now)
    IN  /\ ~r.allowed
        /\ requests' = r.requests
        /\ rejected' = [rejected EXCEPT ![ip] = @ + 1]
        /\ IF route = "upload_file"
           THEN Answer(ip, route, upload_file_route(r.allowed, body), body, duration, now)
           ELSE Answer(ip, route, LimitedRoute(r.allowed, route, None), None, duration, now)
        /\ UNCHANGED <<now, admitted, rl_pc, rl_frame, hmVars, route_admitted>>

RateAdmitted(ip, route) ==
    LET r == rate_limit(requests, ip, DeclaredMax(route), DeclaredWindow(route), now)
    IN  /\ r.allowed
        /\ requests' = r.requests
        /\ admitted' = [admitted EXCEPT ![ip] = Append(@, now)]
        /\ Admit(ip, route)
        /\ UNCHANGED <<rejected, rl_pc, rl_frame>>

\* GET /
IndexRequest(ip, duration) ==
    /\ RateAdmitted(ip, "index")
    /\ Answer(ip, "index",
              LimitedRoute(TRUE, "index", Reply(200, [status |-> "running"])),
              None, duration, now)
    /\ UNCHANGED <<now, hmVars>>

\* POST /api/upload
UploadRequest(ip, body, duration) ==
    /\ RateAdmitted(ip, "upload_file")
    /\ Answer(ip, "upload_file", upload_file_route(TRUE, body), body, duration, now)
    /\ UNCHANGED <<now, hmVars>>

\* GET /health: the view runs get_health_status() and answers 200
HealthRequest(ip, cpu, mem, disk, failure, duration) ==
    /\ RateAdmitted(ip, "health")
    /\ GetSystemHealthCall(cpu, mem, disk, failure)
    /\ Answer(ip, "health", LimitedRoute(TRUE, "health", Reply(200, ret')),
              None, duration, now')

\* GET /metrics
MetricsRequest(ip, duration) ==
    /\ RateAdmitted(ip, "metrics")
    /\ Answer(ip, "metrics", LimitedRoute(TRUE, "metrics", metrics_view(mc_metrics)),
              None, duration, now)
    /\ UNCHANGED <<now, hmVars>>

MaxCompleted == 3
AppMaxTime == 2
Durations == {1, 700}
AppSamples == {<<50, 50, 50>>}
AppFailures == {"none", "disk_usage"}
AppIPs == {"10.0.0.1"}

AppTick == now < AppMaxTime /\ Tick /\ UNCHANGED <<rlVars, hmVars, appVars, mcVars>>

AppNotFound ==
    /\ completed < MaxCompleted
    /\ \E ip \in AppIPs, d \in Durations : NotFoundRequest(ip, d)

AppLimited ==
    /\ completed < MaxCompleted
    /\ \E ip \in AppIPs, route \in Endpoints, d \in Durations :
           \E body \in IF route = "upload_file" THEN UploadBodies ELSE {None} :
               LimitedRequest(ip, route, body, d)

AppIndex ==
    /\ completed < MaxCompleted
    /\ \E ip \in AppIPs, d \in Durations : IndexRequest(ip, d)

AppUpload ==
    /\ completed < MaxCompleted
    /\ \E ip \in AppIPs, body \in UploadBodies, d \in Durations : UploadRequest(ip, body, d)

AppHealth ==
    /\ completed < MaxCompleted
    /\ now < AppMaxTime
    /\ \E ip \in AppIPs, s \in AppSamples, failure \in AppFailures, d \in Durations :
           /\ d >= 10 * SamplingSeconds(failure)
           /\ HealthRequest(ip, s[1], s[2], s[3], failure, d)

AppMetrics ==
    /\ completed < MaxCompleted
    /\ \E ip \in AppIPs, d \in Durations : MetricsRequest(ip, d)

AppNext ==
    \/ AppTick \/ AppNotFound \/ AppLimited \/ AppIndex \/ AppUpload
    \/ AppHealth \/ AppMetrics

\* the requests to POST /api/upload alone
StagesNext == AppTick \/ AppLimited \/ AppUpload

AppInit == now = 0 /\ RLIdle /\ HMInitState /\ AppIdle /\ MCIdle

SpecApp == AppInit /\ [][AppNext]_vars

SpecStages == AppInit /\ [][StagesNext]_vars

\* requests to every route, all at one instant of the clock
CountedNext ==
    \/ AppNotFound \/ AppLimited \/ AppIndex \/ AppUpload
    \/ AppHealth \/ AppMetrics

SpecCounted == AppInit /\ [][CountedNext]_vars

(***************************************************************************)
(* Calls made one after another: each is_allowed runs to completion.       *)
(***************************************************************************)
RLInit == now = 0 /\ RLIdle /\ HMInitState /\ AppIdle /\ MCIdle

IsAllowedCall(ip) ==
    LET r == is_allowed(requests, ip, now)
    IN  /\ requests' = r.requests
        /\ admitted' = IF r.allowed
                       THEN [admitted EXCEPT ![ip] = Append(@, now)]
                       ELSE admitted
        /\ rejected' = IF r.allowed
                       THEN rejected
                       ELSE [rejected EXCEPT ![ip] = @ + 1]
        /\ UNCHANGED <<now, rl_pc, rl_frame, hmVars, appVars, mcVars>>

MaxRejected == 2

RLTick == Tick /\ UNCHANGED <<rlVars, hmVars, appVars, mcVars>>

RLCall == \E ip \in IPs : rejected[ip] < MaxRejected /\ IsAllowedCall(ip)

RLNext == RLTick \/ RLCall

SpecRate == RLInit /\ [][RLNext]_vars

(***************************************************************************)
(* is_allowed on request threads (app.run(threaded=True)).  The method     *)
(* takes no lock, so a thread can be preempted between any two of its      *)
(* statements; each step below is one statement (the assignment of line    *)
(* 120 is the evaluation of the comprehension, then the store).            *)
(***************************************************************************)
MaxConcCalls == 3

CallsStarted ==
    Cardinality({th \in Threads : rl_pc[th] # "idle"})
    + Len(admitted["10.0.0.1"]) + Len(admitted["10.0.0.2"])
    + rejected["10.0.0.1"] + rejected["10.0.0.2"]

Goto(th, line) == rl_pc' = [rl_pc EXCEPT ![th] = line]

\* lines 115-116
T_ReadClock(th) ==
    /\ rl_pc[th] = "idle"
    /\ CallsStarted < MaxConcCalls
    /\ \E ip \in IPs :
           rl_frame' = [rl_frame EXCEPT ![th] =
                           [ip |-> ip, current_time |-> now,
                            window_start |-> WindowStart(now), cleaned |-> <<>>]]
    /\ Goto(th, "L119")
    /\ UNCHANGED <<requests, admitted, rejected, now, hmVars, appVars, mcVars>>

\* line 119, and the right-hand side of line 120
T_CleanEvaluate(th) ==
    /\ rl_pc[th] = "L119"
    /\ IF rl_frame[th].ip \in DOMAIN requests
       THEN /\ rl_frame' = [rl_frame EXCEPT ![th].cleaned =
                               Purge(requests[rl_frame[th].ip], rl_frame[th].window_start)]
            /\ Goto(th, "L120")
       ELSE /\ Goto(th, "L123")
            /\ UNCHANGED rl_frame
    /\ UNCHANGED <<requests, admitted, rejected, now, hmVars, appVars, mcVars>>

\* the store of line 120
T_CleanStore(th) ==
    /\ rl_pc[th] = "L120"
    /\ requests' = [requests EXCEPT ![rl_frame[th].ip] = rl_frame[th].cleaned]
    /\ Goto(th, "L123")
    /\ UNCHANGED <<admitted, rejected, rl_frame, now, hmVars, appVars, mcVars>>

\* line 123
T_TestKey(th) ==
    /\ rl_pc[th] = "L123"
    /\ Goto(th, IF rl_frame[th].ip \notin DOMAIN requests THEN "L124" ELSE "L126")
    /\ UNCHANGED <<requests, admitted, rejected, rl_frame, now, hmVars, appVars, mcVars>>

\* line 124
T_CreateKey(th) ==
    /\ rl_pc[th] = "L124"
    /\ requests' = [ip \in DOMAIN requests \cup {rl_frame[th].ip} |->
                       IF ip = rl_frame[th].ip THEN <<>> ELSE requests[ip]]
    /\ Goto(th, "L126")
    /\ UNCHANGED <<admitted, rejected, rl_frame, now, hmVars, appVars, mcVars>>

\* lines 126-127
T_TestLimit(th) ==
    /\ rl_pc[th] = "L126"
    /\ IF LimitReached(requests[rl_frame[th].ip])
       THEN /\ rejected' = [rejected EXCEPT ![rl_frame[th].ip] = @ + 1]
            /\ rl_frame' = [rl_frame EXCEPT ![th] = None]
            /\ Goto(th, "idle")
       ELSE /\ Goto(th, "L129")
            /\ UNCHANGED <<rejected, rl_frame>>
    /\ UNCHANGED <<requests, admitted, now, hmVars, appVars, mcVars>>

\* lines 129-130
T_Append(th) ==
    /\ rl_pc[th] = "L129"
    /\ requests' = [requests EXCEPT ![rl_frame[th].ip] =
                       Append(@, rl_frame[th].current_time)]
    /\ admitted' = [admitted EXCEPT ![rl_frame[th].ip] =
                       Append(@, rl_frame[th].current_time)]
    /\ rl_frame' = [rl_frame EXCEPT ![th] = None]
    /\ Goto(th, "idle")
    /\ UNCHANGED <<rejected, now, hmVars, appVars, mcVars>>

ConcTick == Tick /\ UNCHANGED <<rlVars, hmVars, appVars, mcVars>>

ConcNext ==
    \/ ConcTick
    \/ \E th \in Threads : T_ReadClock(th)
    \/ \E th \in Threads : T_CleanEvaluate(th)
    \/ \E th \in Threads : T_CleanStore(th)
    \/ \E th \in Threads : T_TestKey(th)
    \/ \E th \in Threads : T_CreateKey(th)
    \/ \E th \in Threads : T_TestLimit(th)
    \/ \E th \in Threads : T_Append(th)

SpecRateConc == RLInit /\ [][ConcNext]_vars

(***************************************************************************)
(* The health monitor called through its module-level functions, one call  *)
(* after another.                                                          *)
(***************************************************************************)
HInit == now = 0 /\ RLIdle /\ HMInitState /\ AppIdle /\ MCIdle

MaxRecorded == 2
MaxChecks == 4
Latencies == {2}
Failures == {"cpu_percent", "virtual_memory", "disk_usage"}
HealthSamples == {<<50, 50, 50>>, <<93, 50, 50>>, <<50, 50, 97>>}

HRecord ==
    /\ hm_metrics.requests_total < MaxRecorded
    /\ \E success \in BOOLEAN, response_time \in Latencies :
           RecordRequestCall(success, response_time)
    /\ UNCHANGED <<now, rlVars, appVars, mcVars>>

HCheckSampled ==
    /\ checks < MaxChecks
    /\ now < MaxTime
    /\ \E s \in HealthSamples : GetSystemHealthCall(s[1], s[2], s[3], "none")
    /\ UNCHANGED <<rlVars, appVars, mcVars>>

HCheckFailed ==
    /\ checks < MaxChecks
    /\ now < MaxTime
    /\ \E s \in HealthSamples, failure \in Failures :
           GetSystemHealthCall(s[1], s[2], s[3], failure)
    /\ UNCHANGED <<rlVars, appVars, mcVars>>

HSummary == HealthSummaryCall /\ UNCHANGED <<now, rlVars, appVars, mcVars>>

HNext == HRecord \/ HCheckSampled \/ HCheckFailed \/ HSummary

SpecHealth == HInit /\ [][HNext]_vars

\* the same calls on a host whose samples can always be taken
SampledNext == HRecord \/ HCheckSampled \/ HSummary

SpecSampled == HInit /\ [][SampledNext]_vars

(***************************************************************************)
(* The health monitor on request threads.  get_system_health takes the     *)
(* lock only inside _store_health_history; _get_health_summary (run by     *)
(* get_detailed_health) reads health_history without it.  Each step is one *)
(* statement.                                                              *)
(***************************************************************************)
MaxConcChecks == 4
ConcSamples == {<<50, 50, 50>>, <<93, 50, 50>>}

HGoto(th, line) == hm_pc' = [hm_pc EXCEPT ![th] = line]

HReturn(th, op, value) ==
    /\ call' = [op |-> op, thread |-> th]
    /\ ret' = value
    /\ exc' = "none"
    /\ hm_frame' = [hm_frame EXCEPT ![th] = None]
    /\ HGoto(th, "idle")

ChecksStarted ==
    checks + Cardinality({th \in Threads :
                 hm_pc[th] \notin {"idle", "L164", "L167", "L174"}})

\* lines 35-37: the three psutil calls; cpu_percent(interval=1) takes a second
H_Sample(th) ==
    /\ hm_pc[th] = "idle"
    /\ ChecksStarted < MaxConcChecks
    /\ now < MaxTime
    /\ \E s \in ConcSamples, failure \in {"none", "virtual_memory"} :
           /\ hm_frame' = [hm_frame EXCEPT ![th] =
                  [cpu |-> s[1], mem |-> s[2], disk |-> s[3], failure |-> failure]]
           /\ HGoto(th, IF failure = "none" THEN "L39" ELSE "L78")
           /\ now' = now + SamplingSeconds(failure)
    /\ UNCHANGED <<hm_metrics, health_history, call, ret, exc, check_log, hm_lock,
                   rlVars, appVars, mcVars>>

\* lines 39-62: the dictionary, with status 'healthy'
H_Build(th) ==
    /\ hm_pc[th] = "L39"
    /\ LET f == hm_frame[th]
       IN  hm_frame' = [hm_frame EXCEPT ![th] =
               [health_status |->
                    [Snapshot(f.cpu, f.mem, f.disk, hm_metrics, now)
                        EXCEPT !.status = "healthy"]] @@ f]
    /\ HGoto(th, "L65")
    /\ UNCHANGED <<now, hm_metrics, health_history, call, ret, exc, check_log,
                   hm_lock, rlVars, appVars, mcVars>>

\* lines 65-67
H_Degraded(th) ==
    /\ hm_pc[th] = "L65"
    /\ LET f == hm_frame[th]
       IN  hm_frame' =
               IF DegradedCond(f.cpu, f.mem, f.disk, calculate_success_rate(hm_metrics))
               THEN [hm_frame EXCEPT ![th].health_status.status = "degraded"]
               ELSE hm_frame
    /\ HGoto(th, "L69")
    /\ UNCHANGED <<now, hm_metrics, health_history, call, ret, exc, check_log,
                   hm_lock, rlVars, appVars, mcVars>>

\* lines 69-71
H_Unhealthy(th) ==
    /\ hm_pc[th] = "L69"
    /\ LET f == hm_frame[th]
       IN  hm_frame' =
               IF UnhealthyCond(f.cpu, f.mem, f.disk, calculate_success_rate(hm_metrics))
               THEN [hm_frame EXCEPT ![th].health_status.status = "unhealthy"]
               ELSE hm_frame
    /\ HGoto(th, "L157")
    /\ UNCHANGED <<now, hm_metrics, health_history, call, ret, exc, check_log,
                   hm_lock, rlVars, appVars, mcVars>>

\* line 157: with self._lock
H_Acquire(th) ==
    /\ hm_pc[th] = "L157"
    /\ hm_lock = "free"
    /\ hm_lock' = th
    /\ HGoto(th, "L158")
    /\ UNCHANGED <<now, hm_metrics, health_history, call, ret, exc, check_log,
                   hm_frame, rlVars, appVars, mcVars>>

\* line 158
H_Append(th) ==
    /\ hm_pc[th] = "L158"
    /\ health_history' = Append(health_history, hm_frame[th].health_status)
    /\ HGoto(th, "L159")
    /\ UNCHANGED <<now, hm_metrics, call, ret, exc, check_log, hm_lock, hm_frame,
                   rlVars, appVars, mcVars>>

\* lines 159-160, and the end of the with block
H_Trim(th) ==
    /\ hm_pc[th] = "L159"
    /\ health_history' = IF Len(health_history) > max_history_size
                         THEN Tail(health_history) ELSE health_history
    /\ hm_lock' = "free"
    /\ HGoto(th, "L76")
    /\ UNCHANGED <<now, hm_metrics, call, ret, exc, check_log, hm_frame,
                   rlVars, appVars, mcVars>>

\* line 76
H_ReturnStatus(th) ==
    /\ hm_pc[th] = "L76"
    /\ HReturn(th, "get_system_health", hm_frame[th].health_status)
    /\ check_log' = Append(check_log, hm_frame[th].health_status.status)
    /\ UNCHANGED <<now, hm_metrics, health_history, hm_lock, rlVars, appVars, mcVars>>

\* lines 78-85
H_Except(th) ==
    /\ hm_pc[th] = "L78"
    /\ HReturn(th, "get_system_health", ErrorSnapshot(hm_frame[th].failure, now))
    /\ check_log' = Append(check_log, "error")
    /\ UNCHANGED <<now, hm_metrics, health_history, hm_lock, rlVars, appVars, mcVars>>

\* _get_health_summary, lines 164-165
S_TestEmpty(th) ==
    /\ hm_pc[th] = "idle"
    /\ IF health_history = <<>>
       THEN HReturn(th, "_get_health_summary", <<>>)
       ELSE /\ HGoto(th, "L167")
            /\ hm_frame' = [hm_frame EXCEPT ![th] = [recent_checks |-> <<>>]]
            /\ UNCHANGED <<call, ret, exc>>
    /\ UNCHANGED <<now, hm_metrics, health_history, check_log, hm_lock,
                   rlVars, appVars, mcVars>>

\* lines 167-172
S_Recent(th) ==
    /\ hm_pc[th] = "L167"
    /\ hm_frame' = [hm_frame EXCEPT ![th].recent_checks = LastN(health_history, RecentN)]
    /\ HGoto(th, "L174")
    /\ UNCHANGED <<now, hm_metrics, health_history, call, ret, exc, check_log,
                   hm_lock, rlVars, appVars, mcVars>>

\* lines 174-178: len(self.health_history) is read here
S_Return(th) ==
    /\ hm_pc[th] = "L174"
    /\ LET recent_checks == hm_frame[th].recent_checks
       IN  HReturn(th, "_get_health_summary",
                   [recent_status_distribution |-> StatusCounts(recent_checks),
                    total_checks |-> Len(health_history),
                    last_10_statuses |->
                        [i \in 1..Len(recent_checks) |-> recent_checks[i].status]])
    /\ UNCHANGED <<now, hm_metrics, health_history, check_log, hm_lock,
                   rlVars, appVars, mcVars>>

HConcNext ==
    \/ \E th \in Threads : H_Sample(th)
    \/ \E th \in Threads : H_Build(th)
    \/ \E th \in Threads : H_Degraded(th)
    \/ \E th \in Threads : H_Unhealthy(th)
    \/ \E th \in Threads : H_Acquire(th)
    \/ \E th \in Threads : H_Append(th)
    \/ \E th \in Threads : H_Trim(th)
    \/ \E th \in Threads : H_ReturnStatus(th)
    \/ \E th \in Threads : H_Except(th)
    \/ \E th \in Threads : S_TestEmpty(th)
    \/ \E th \in Threads : S_Recent(th)
    \/ \E th \in Threads : S_Return(th)

SpecHealthConc == HInit /\ [][HConcNext]_vars

(***************************************************************************)
(* Classification: any tally of up to MaxTally requests, then one check    *)
(* with any combination of samples around the thresholds.                  *)
(***************************************************************************)
MaxTally == 20
Percents == {50, 90, 91, 95, 96}

ClassifyRecord ==
    /\ check_log = <<>>
    /\ hm_metrics.requests_total < MaxTally
    /\ \E success \in BOOLEAN : RecordRequestCall(success, 2)
    /\ UNCHANGED <<now, rlVars, appVars, mcVars>>

ClassifyCheck ==
    /\ check_log = <<>>
    /\ \E cpu \in Percents, mem \in Percents, disk \in Percents :
           GetSystemHealthCall(cpu, mem, disk, "none")
    /\ UNCHANGED <<rlVars, appVars, mcVars>>

ClassifyNext == ClassifyRecord \/ ClassifyCheck

SpecClassify == HInit /\ [][ClassifyNext]_vars

(***************************************************************************)
(* MetricsCollector calls made one after another.  Every method holds      *)
(* self._lock for its whole body, so a call is one step.  snapshot is the  *)
(* dict a caller got from get_all_metrics, read through the references it  *)
(* holds: dict.copy() copies the references, not the MetricValue objects,  *)
(* and shared is the set of keys whose object the collector still holds.   *)
(***************************************************************************)
MaxOps == 2
MetricsMaxTime == 1

SecurityEvents == <<"security", "events", "total">>

\* the (name, labels) pairs the calls are made with
Series ==
    { [name |-> <<"requests">>, labels |-> <<>>],
      [name |-> <<"requests">>, labels |-> ("method" :> <<"GET">>)],
      [name |-> SecurityEvents,
       labels |-> ("event_type" :> <<"login">>
                   @@ "risk_level" :> <<"failed", "risk", "level", "low">>)],
      [name |-> SecurityEvents,
       labels |-> ("event_type" :> <<"login", "risk", "level", "failed">>
                   @@ "risk_level" :> <<"low">>)] }

Deltas == {0, 2}
GaugeValues == {7}
\* 0.1 s, 45 s and 70 s
Observations == {1, 450, 700}
CallerValues == {99}

\* what the references of the handed-out dict show once the collector's
\* dict is m2 and the objects under the keys in kept are still the same
SnapshotAfter(m2, kept) ==
    [k \in DOMAIN snapshot |-> IF k \in kept THEN m2[k] ELSE snapshot[k]]

Logged(op, name, labels, value) ==
    mc_log' = Append(mc_log, [op |-> op, name |-> name, labels |-> labels,
                              value |-> value])

Returned(op, value, raised) ==
    /\ call' = [op |-> op]
    /\ ret' = value
    /\ exc' = raised

\* lines 34-37 create an object only under a missing key and update the
\* stored object in place
IncrementCounterCall(name, labels, value) ==
    /\ mc_metrics' = increment_counter(mc_metrics, name, labels, value, now)
    /\ Logged("increment_counter", name, labels, value)
    /\ shared' = shared
    /\ snapshot' = SnapshotAfter(mc_metrics', shared')
    /\ Returned("increment_counter", None, "none")

\* line 43 stores a new object under the key
SetGaugeCall(name, value, labels) ==
    /\ mc_metrics' = set_gauge(mc_metrics, name, value, labels, now)
    /\ Logged("set_gauge", name, labels, value)
    /\ shared' = shared \ {get_metric_key(name, labels)}
    /\ snapshot' = SnapshotAfter(mc_metrics', shared')
    /\ Returned("set_gauge", None, "none")

\* lines 55-74 create objects only under missing keys and update in place
RecordHistogramCall(name, value, labels) ==
    /\ mc_metrics' = record_histogram(mc_metrics, name, value, labels, now)
    /\ Logged("record_histogram", name, labels, value)
    /\ shared' = shared
    /\ snapshot' = SnapshotAfter(mc_metrics', shared')
    /\ Returned("record_histogram", None, "none")

\* line 90 empties the collector's dict; the objects live on in the copies
ResetMetricsCall ==
    /\ mc_metrics' = reset_metrics(mc_metrics)
    /\ Logged("reset_metrics", <<>>, <<>>, 0)
    /\ shared' = {}
    /\ snapshot' = SnapshotAfter(mc_metrics', shared')
    /\ Returned("reset_metrics", None, "none")

GetAllMetricsCall ==
    /\ snapshot' = get_all_metrics(mc_metrics)
    /\ shared' = DOMAIN mc_metrics
    /\ Returned("get_all_metrics", get_all_metrics(mc_metrics), "none")
    /\ UNCHANGED <<mc_metrics, mc_log>>

\* the holder of the returned dict assigns to a MetricValue it reaches
\* through it: all_metrics[key].value = v
CallerAssignsValue(key, v) ==
    /\ key \in DOMAIN snapshot
    /\ snapshot' = [snapshot EXCEPT ![key].value = v]
    /\ mc_metrics' = IF key \in shared
                      THEN [mc_metrics EXCEPT ![key].value = v]
                      ELSE mc_metrics
    /\ Returned("caller_assigns", None, "none")
    /\ UNCHANGED <<mc_log, shared>>

ExportCall ==
    LET r == generate_prometheus_format(mc_metrics)
    IN  /\ Returned("generate_prometheus_format", r.ret, r.exc)
        /\ UNCHANGED <<mc_metrics, mc_log, snapshot, shared>>

SummaryCall ==
    /\ Returned("get_metrics_summary", get_metrics_summary(mc_metrics), "none")
    /\ UNCHANGED <<mc_metrics, mc_log, snapshot, shared>>

hmState == <<hm_metrics, health_history, check_log, hm_lock, hm_pc, hm_frame>>
MFrame == <<now, rlVars, hmState, resp, completed, route_admitted,
            mc_lock, mc_pc, mc_frame>>

MTick ==
    /\ now < MetricsMaxTime
    /\ Tick
    /\ UNCHANGED <<rlVars, hmVars, appVars, mcVars>>

MIncrement ==
    /\ Len(mc_log) < MaxOps
    /\ \E sr \in Series, value \in Deltas :
           IncrementCounterCall(sr.name, sr.labels, value)
    /\ UNCHANGED MFrame

MSetGauge ==
    /\ Len(mc_log) < MaxOps
    /\ \E sr \in Series, value \in GaugeValues :
           SetGaugeCall(sr.name, value, sr.labels)
    /\ UNCHANGED MFrame

MRecord ==
    /\ Len(mc_log) < MaxOps
    /\ \E sr \in Series, value \in Observations :
           RecordHistogramCall(sr.name, value, sr.labels)
    /\ UNCHANGED MFrame

MReset ==
    /\ Len(mc_log) < MaxOps
    /\ ResetMetricsCall
    /\ UNCHANGED MFrame

MGetAll == GetAllMetricsCall /\ UNCHANGED MFrame

MCallerAssigns ==
    /\ \A key \in DOMAIN snapshot : snapshot[key].value \notin CallerValues
    /\ \E key \in DOMAIN snapshot, v \in CallerValues : CallerAssignsValue(key, v)
    /\ UNCHANGED MFrame

MExport == ExportCall /\ UNCHANGED MFrame

MSummary == SummaryCall /\ UNCHANGED MFrame

MetricsNext ==
    \/ MTick \/ MIncrement \/ MSetGauge \/ MRecord \/ MReset
    \/ MGetAll \/ MCallerAssigns \/ MExport \/ MSummary

\* the updates alone
UpdatesNext == MTick \/ MIncrement \/ MSetGauge \/ MRecord \/ MReset

MetricsInit == now = 0 /\ RLIdle /\ HMInitState /\ AppIdle /\ MCIdle

SpecMetrics == MetricsInit /\ [][MetricsNext]_vars

SpecUpdates == MetricsInit /\ [][UpdatesNext]_vars

(***************************************************************************)
(* record_histogram on request threads.  The body runs inside              *)
(* "with self._lock" (line 47); each step below is one statement group of  *)
(* the body: one turn of the bucket loop, the sum and count updates, the   *)
(* release of the lock on leaving the with block.                          *)
(***************************************************************************)
MaxConcRecords == 3

HistSeries ==
    { [name |-> <<"requests">>, labels |-> <<>>],
      [name |-> <<"requests">>, labels |-> ("method" :> <<"GET">>)] }

RecordsStarted ==
    Len(mc_log) + Cardinality({th \in Threads : mc_pc[th] # "idle"})

LockAvailable_ignored(lock) == TRUE
\* threading.Lock: acquire waits until no thread holds the lock
LockAvailable(lock) == lock = "free"

MGoto(th, line) == mc_pc' = [mc_pc EXCEPT ![th] = line]

MConcFrame == <<now, rlVars, hmVars, resp, completed, route_admitted,
                snapshot, shared>>

\* the call, up to the with statement
M_Call(th) ==
    /\ mc_pc[th] = "idle"
    /\ RecordsStarted < MaxConcRecords
    /\ \E sr \in HistSeries, value \in Observations :
           mc_frame' = [mc_frame EXCEPT ![th] =
                           [name |-> sr.name, labels |-> sr.labels,
                            value |-> value, i |-> 1]]
    /\ MGoto(th, "L47")
    /\ UNCHANGED <<mc_metrics, mc_log, mc_lock, MConcFrame>>

\* line 47
M_Acquire(th) ==
    /\ mc_pc[th] = "L47"
    /\ LockAvailable(mc_lock)
    /\ mc_lock' = th
    /\ MGoto(th, "L51")
    /\ UNCHANGED <<mc_metrics, mc_log, mc_frame, MConcFrame>>

\* lines 51-60, one bucket
M_Bucket(th) ==
    /\ mc_pc[th] = "L51"
    /\ mc_metrics' = RecordBucket(mc_metrics, mc_frame[th].name, mc_frame[th].value,
                                   mc_frame[th].labels, Buckets[mc_frame[th].i], now)
    /\ mc_frame' = [mc_frame EXCEPT ![th].i = @ + 1]
    /\ MGoto(th, IF mc_frame[th].i = Len(Buckets) THEN "L63" ELSE "L51")
    /\ UNCHANGED <<mc_log, mc_lock, MConcFrame>>

\* lines 62-74
M_SumCount(th) ==
    /\ mc_pc[th] = "L63"
    /\ mc_metrics' = RecordSumCount(mc_metrics, mc_frame[th].name, mc_frame[th].value,
                                     mc_frame[th].labels, now)
    /\ MGoto(th, "exit")
    /\ UNCHANGED <<mc_log, mc_lock, mc_frame, MConcFrame>>

\* leaving the with block
M_Release(th) ==
    /\ mc_pc[th] = "exit"
    /\ mc_lock' = "free"
    /\ Logged("record_histogram", mc_frame[th].name, mc_frame[th].labels,
              mc_frame[th].value)
    /\ mc_frame' = [mc_frame EXCEPT ![th] = None]
    /\ MGoto(th, "idle")
    /\ UNCHANGED <<mc_metrics, MConcFrame>>

HistConcNext ==
    \/ \E th \in Threads : M_Call(th)
    \/ \E th \in Threads : M_Acquire(th)
    \/ \E th \in Threads : M_Bucket(th)
    \/ \E th \in Threads : M_SumCount(th)
    \/ \E th \in Threads : M_Release(th)

SpecHistConc == MetricsInit /\ [][HistConcNext]_vars

(***************************************************************************)
(* record_request, reset_metrics and get_metrics of the HealthMonitor on   *)
(* request threads.  Each runs its body inside "with self._lock"; a step   *)
(* is one statement group of the body.                                     *)
(***************************************************************************)
TallyOps == {"record_request", "reset_metrics", "get_metrics"}

TallyFrame == <<now, health_history, check_log, rlVars, appVars, mcVars>>

FirstLine(op) ==
    CASE op = "record_request" -> "L103"
      [] op = "reset_metrics" -> "L124"
      [] op = "get_metrics" -> "L119"

\* the call, up to its with statement
Y_Call(th) ==
    /\ hm_pc[th] = "idle"
    /\ \E op \in TallyOps, success \in BOOLEAN, response_time \in Latencies :
           /\ op = "record_request" => hm_metrics.requests_total < MaxRecorded
           /\ hm_frame' = [hm_frame EXCEPT ![th] =
                               [op |-> op, success |-> success,
                                response_time |-> response_time,
                                entry |-> None]]
    /\ HGoto(th, "with")
    /\ UNCHANGED <<hm_metrics, hm_lock, call, ret, exc, TallyFrame>>

\* lines 102, 118, 123: with self._lock
Y_Acquire(th) ==
    /\ hm_pc[th] = "with"
    /\ LockAvailable(hm_lock)
    /\ hm_lock' = th
    /\ hm_frame' = [hm_frame EXCEPT ![th].entry = hm_metrics]
    /\ HGoto(th, FirstLine(hm_frame[th].op))
    /\ UNCHANGED <<hm_metrics, call, ret, exc, TallyFrame>>

\* line 103
Y_CountRequest(th) ==
    /\ hm_pc[th] = "L103"
    /\ hm_metrics' = CountRequest(hm_metrics)
    /\ HGoto(th, "L104")
    /\ UNCHANGED <<hm_lock, hm_frame, call, ret, exc, TallyFrame>>

\* lines 104-107
Y_CountOutcome(th) ==
    /\ hm_pc[th] = "L104"
    /\ hm_metrics' = CountOutcome(hm_metrics, hm_frame[th].success)
    /\ HGoto(th, "L110")
    /\ UNCHANGED <<hm_lock, hm_frame, call, ret, exc, TallyFrame>>

\* lines 109-114
Y_UpdateAverage(th) ==
    /\ hm_pc[th] = "L110"
    /\ hm_metrics' = UpdateAverage(hm_metrics, hm_frame[th].response_time)
    /\ HGoto(th, "exit")
    /\ UNCHANGED <<hm_lock, hm_frame, call, ret, exc, TallyFrame>>

\* lines 124-130
Y_Reset(th) ==
    /\ hm_pc[th] = "L124"
    /\ hm_metrics' = reset_tally(hm_metrics)
    /\ HGoto(th, "exit")
    /\ UNCHANGED <<hm_lock, hm_frame, call, ret, exc, TallyFrame>>

\* line 119: the copy is made before the lock is released
Y_Copy(th) ==
    /\ hm_pc[th] = "L119"
    /\ hm_frame' = [hm_frame EXCEPT ![th].entry = get_metrics(hm_metrics)]
    /\ HGoto(th, "exit")
    /\ UNCHANGED <<hm_metrics, hm_lock, call, ret, exc, TallyFrame>>

\* leaving the with block, and the return
Y_Release(th) ==
    /\ hm_pc[th] = "exit"
    /\ hm_lock' = "free"
    /\ call' = [op |-> hm_frame[th].op, thread |-> th]
    /\ ret' = IF hm_frame[th].op = "get_metrics" THEN hm_frame[th].entry ELSE None
    /\ exc' = "none"
    /\ hm_frame' = [hm_frame EXCEPT ![th] = None]
    /\ HGoto(th, "idle")
    /\ UNCHANGED <<hm_metrics, TallyFrame>>

TallyConcNext ==
    \/ \E th \in Threads : Y_Call(th)
    \/ \E th \in Threads : Y_Acquire(th)
    \/ \E th \in Threads : Y_CountRequest(th)
    \/ \E th \in Threads : Y_CountOutcome(th)
    \/ \E th \in Threads : Y_UpdateAverage(th)
    \/ \E th \in Threads : Y_Reset(th)
    \/ \E th \in Threads : Y_Copy(th)
    \/ \E th \in Threads : Y_Release(th)

SpecTallyConc == HInit /\ [][TallyConcNext]_vars

(***************************************************************************)
(* InputValidator and sanitize_input (security.py).  A Python value is a   *)
(* record tagged with its type.  A str is a sequence of characters; one    *)
(* element of the sequence is one character, named by itself ("a", "<") or *)
(* by a token when it has no printable form ("NUL" is 0x00, "DEL" 0x7F,    *)
(* "TAB" 0x09, "U+00E9" e acute), or it is the text of one HTML entity     *)
(* written by html.escape ("&amp;" stands for the five characters          *)
(* & a m p ;).  A dict keeps its items in insertion order, as Python does. *)
(***************************************************************************)
Text(chars) == [kind |-> "str", chars |-> chars]
IntV(n) == [n |-> n, kind |-> "int", big |-> FALSE]
\* an int beyond the largest float, such as 10**400 (json.loads yields it)
BigInt == [n |-> 0, kind |-> "int", big |-> TRUE]
NoneV == [kind |-> "NoneType"]
ListV(items) == [kind |-> "list", items |-> items]
\* items: a sequence of [v |-> value, k |-> key characters]
DictV(items) == [kind |-> "dict", items |-> items]
FloatV(cls, n) == [n |-> n, kind |-> "float", cls |-> cls]

\* Python truth value: what "if not x" tests
Truthy(v) ==
    CASE v.kind = "str" -> v.chars # <<>>
      [] v.kind = "int" -> v.big \/ v.n # 0
      [] v.kind = "NoneType" -> FALSE
      [] v.kind \in {"list", "dict"} -> v.items # <<>>
      [] OTHER -> TRUE

Raise(type, why) == [reason |-> why, error |-> type, value |-> NoneV]
Return(value) == [reason |-> "", error |-> "none", value |-> value]

\* the characters of r'[\x00-\x08\x0B\x0C\x0E-\x1F\x7F]' that occur in the inputs
ControlChars == {"NUL", "DEL"}
\* the characters str.strip() removes that occur in the inputs
Whitespace == {" ", "TAB"}
\* html.escape(s, quote=True)
Entity ==
    [c \in {"&", "<", ">", "\"", "'"} |->
        CASE c = "&" -> "&amp;"
          [] c = "<" -> "&lt;"
          [] c = ">" -> "&gt;"
          [] c = "\"" -> "&quot;"
          [] c = "'" -> "&#x27;"]
\* \w of a str pattern: Unicode letters and digits and the underscore
WordChars == {"a", "b", "A", "1", "_", "U+00E9"}
\* every character of the inputs
Alphabet == {"a", "U+00E9", ".", "/", "\\", "-", "<", "&", "'", " ", "TAB", "NUL"}
AllChars == Alphabet \cup WordChars \cup ControlChars \cup Whitespace
               \cup DOMAIN Entity \cup {"@", "%", "+", "[", "]", "{", "}", "i", "n", "f"}

\* re.sub(r'[class]', repl, s)
RECURSIVE re_sub(_, _, _)
re_sub(class, repl, s) ==
    IF s = <<>> THEN <<>>
    ELSE (IF Head(s) \in class THEN repl ELSE <<Head(s)>>)
             \o re_sub(class, repl, Tail(s))

RECURSIVE html_escape(_)
html_escape(s) ==
    IF s = <<>> THEN <<>>
    ELSE <<IF Head(s) \in DOMAIN Entity THEN Entity[Head(s)] ELSE Head(s)>>
             \o html_escape(Tail(s))

RECURSIVE lstrip(_)
lstrip(s) == IF s # <<>> /\ Head(s) \in Whitespace THEN lstrip(Tail(s)) ELSE s

RECURSIVE rstrip(_)
rstrip(s) ==
    IF s # <<>> /\ s[Len(s)] \in Whitespace
    THEN rstrip(SubSeq(s, 1, Len(s) - 1))
    ELSE s

strip(s) == rstrip(lstrip(s))

\* str.lower() on the letters of the inputs
lower(s) == [i \in 1..Len(s) |-> IF s[i] = "A" THEN "a" ELSE s[i]]

\* sanitize_string's default max_length, 1000 in the source
max_length == 2

RemoveControl_keepsNUL(s) == re_sub(ControlChars \ {"NUL"}, <<>>, s)

RemoveControl(s) == re_sub(ControlChars, <<>>, s)

sanitize_string(value, limit) ==
    IF value.kind # "str" THEN Raise("SecurityError", "Input must be a string")
    ELSE IF Len(value.chars) > limit THEN Raise("SecurityError", "Input too long")
    ELSE Return(Text(strip(html_escape(RemoveControl(value.chars)))))

\* r'^[a-zA-Z0-9._%+-]+@[a-zA-Z0-9.-]+\.[a-zA-Z]{2,}$' under re.match
AsciiLetters == {"a", "b", "A"}
AsciiAlnum == AsciiLetters \cup {"1"}
MatchesEmail(s) ==
    \E at \in 1..Len(s), dot \in 1..Len(s) :
        /\ 1 < at /\ at + 1 < dot /\ dot + 2 <= Len(s)
        /\ s[at] = "@" /\ s[dot] = "."
        /\ \A i \in 1..(at - 1) : s[i] \in AsciiAlnum \cup {".", "_", "%", "+", "-"}
        /\ \A i \in (at + 1)..(dot - 1) : s[i] \in AsciiAlnum \cup {".", "-"}
        /\ \A i \in (dot + 1)..Len(s) : s[i] \in AsciiLetters

validate_email(email) ==
    IF ~Truthy(email) THEN Raise("SecurityError", "Email is required")
    ELSE IF email.kind # "str" THEN Raise("AttributeError", "lower")
    ELSE LET e == strip(lower(email.chars)) IN
         IF MatchesEmail(e) THEN Return(Text(e))
         ELSE Raise("SecurityError", "Invalid email format")

\* float(value)
DigitValue == [c \in {"1"} |-> 1]
ParseFloat(chars) ==
    LET s == strip(chars) IN
    CASE s = <<"n", "a", "n">> -> Return(FloatV("nan", 0))
      [] s = <<"i", "n", "f">> -> Return(FloatV("inf", 0))
      [] s = <<"-", "i", "n", "f">> -> Return(FloatV("-inf", 0))
      [] Len(s) = 1 /\ s[1] \in DOMAIN DigitValue ->
             Return(FloatV("finite", DigitValue[s[1]]))
      [] OTHER -> Raise("ValueError", "could not convert string to float")

float(value) ==
    CASE value.kind = "int" ->
             IF value.big THEN Raise("OverflowError", "int too large to convert to float")
             ELSE Return(FloatV("finite", value.n))
      [] value.kind = "float" -> Return(value)
      [] value.kind = "str" -> ParseFloat(value.chars)
      [] OTHER -> Raise("TypeError", "float() argument must be a string or a real number")

\* num < bound and num > bound for a finite bound (IEEE 754 comparisons)
FloatLess(num, bound) ==
    CASE num.cls = "nan" -> FALSE
      [] num.cls = "inf" -> FALSE
      [] num.cls = "-inf" -> TRUE
      [] OTHER -> num.n < bound

FloatGreater(num, bound) ==
    CASE num.cls = "nan" -> FALSE
      [] num.cls = "inf" -> TRUE
      [] num.cls = "-inf" -> FALSE
      [] OTHER -> num.n > bound

\* min_val, max_val: None or IntV(n)
validate_numeric(value, min_val, max_val) ==
    LET parsed == float(value) IN
    IF parsed.error \in {"ValueError", "TypeError"}
    THEN Raise("SecurityError", "Input must be a valid number")
    ELSE IF parsed.error # "none" THEN parsed
    ELSE IF min_val # NoneV /\ FloatLess(parsed.value, min_val.n)
    THEN Raise("SecurityError", "Value must be at least")
    ELSE IF max_val # NoneV /\ FloatGreater(parsed.value, max_val.n)
    THEN Raise("SecurityError", "Value must be at most")
    ELSE parsed

\* json.loads on the documents of the inputs: 1, {}, [] and [document]
RECURSIVE json_loads(_)
json_loads(chars) ==
    LET s == strip(chars) IN
    CASE s = <<"1">> -> Return(IntV(1))
      [] s = <<"{", "}">> -> Return(DictV(<<>>))
      [] s = <<"[", "]">> -> Return(ListV(<<>>))
      [] Len(s) > 2 /\ s[1] = "[" /\ s[Len(s)] = "]" ->
             LET inner == json_loads(SubSeq(s, 2, Len(s) - 1)) IN
             IF inner.error = "none" THEN Return(ListV(<<inner.value>>)) ELSE inner
      [] OTHER -> Raise("JSONDecodeError", "Expecting value")

\* validate_json's default max_size, 1024 * 1024 in the source
max_size == 4

validate_json(data, limit) ==
    IF data.kind \notin {"str", "list", "dict"}
    THEN Raise("TypeError", "object has no len()")
    ELSE IF Len(IF data.kind = "str" THEN data.chars ELSE data.items) > limit
    THEN Raise("SecurityError", "JSON payload too large")
    ELSE IF data.kind # "str"
    THEN Raise("TypeError", "the JSON object must be str, bytes or bytearray")
    ELSE LET parsed == json_loads(data.chars) IN
         IF parsed.error = "JSONDecodeError"
         THEN Raise("SecurityError", "Invalid JSON")
         ELSE IF parsed.value.kind # "dict"
         THEN Raise("SecurityError", "JSON must be an object")
         ELSE parsed

\* r'[^\w\-_.]': everything but word characters, '-', '_' and '.'
Dangerous == AllChars \ (WordChars \cup {"-", "_", "."})

\* r'[./\\]'
PathChars == {".", "/", "\\"}

sanitize_filename(filename) ==
    IF ~Truthy(filename) THEN Raise("SecurityError", "Filename is required")
    ELSE IF filename.kind # "str"
    THEN Raise("TypeError", "expected string or bytes-like object")
    ELSE LET cleaned == re_sub(Dangerous, <<>>, re_sub(PathChars, <<"_">>, filename.chars)) IN
         IF cleaned = <<>> THEN Raise("SecurityError", "Invalid filename")
         ELSE Return(Text(cleaned))

\* the interpreter's recursion limit, 1000 frames by default, counted in
\* nested calls of sanitize_input
RecursionLimit == 4

FirstFailure(results) ==
    LET failing == {i \in 1..Len(results) : results[i].error # "none"} IN
    IF failing = {} THEN 0 ELSE CHOOSE i \in failing : \A j \in failing : i <= j

RECURSIVE sanitize_input_at(_, _)
sanitize_input_at(data, depth) ==
    IF depth > RecursionLimit
    THEN Raise("RecursionError", "maximum recursion depth exceeded")
    ELSE CASE data.kind = "str" -> sanitize_string(data, max_length)
           [] data.kind = "dict" ->
                  LET results == [i \in 1..Len(data.items) |->
                                     sanitize_input_at(data.items[i].v, depth + 1)]
                      failed == FirstFailure(results)
                  IN  IF failed # 0 THEN results[failed]
                      ELSE Return(DictV([i \in 1..Len(data.items) |->
                                            [v |-> results[i].value, k |-> data.items[i].k]]))
           [] data.kind = "list" ->
                  LET results == [i \in 1..Len(data.items) |->
                                     sanitize_input_at(data.items[i], depth + 1)]
                      failed == FirstFailure(results)
                  IN  IF failed # 0 THEN results[failed]
                      ELSE Return(ListV([i \in 1..Len(data.items) |-> results[i].value]))
           [] OTHER -> Return(data)

sanitize_input_shallow(data) ==
    IF data.kind = "str" THEN sanitize_string(data, max_length) ELSE Return(data)

sanitize_input(data) == sanitize_input_at(data, 1)

\* upload_file's body on the two required fields of an object body
upload_file_fields(filename, file_data) ==
    LET cleaned == sanitize_filename(filename) IN
    IF cleaned.error = "SecurityError" THEN Reply(400, [error |-> cleaned.reason])
    ELSE IF cleaned.error # "none" THEN Reply(500, [error |-> "Internal server error"])
    ELSE IF file_data.kind \notin {"str", "list"}
    THEN Reply(400, [error |-> "Invalid file data format"])
    ELSE Reply(200, [status |-> "processed"])

\* config_endpoint, POST branch, on the parsed JSON body
config_post(data) ==
    IF ~Truthy(data) THEN Reply(400, [error |-> "No configuration data provided"])
    ELSE LET cleaned == sanitize_input(data) IN
         IF cleaned.error = "SecurityError" THEN Reply(400, [error |-> cleaned.reason])
         ELSE IF cleaned.error # "none" THEN Reply(500, [error |-> "Internal server error"])
         ELSE Reply(200, [data |-> cleaned.value,
                          message |-> "Configuration updated successfully"])

\* validate_data on the value under 'data'
validate_data(input_data) ==
    LET cleaned == sanitize_input(input_data) IN
    IF cleaned.error = "SecurityError" THEN Reply(400, [error |-> cleaned.reason])
    ELSE IF cleaned.error # "none" THEN Reply(500, [error |-> "Internal server error"])
    ELSE Reply(200, [valid |-> TRUE, sanitized_data |-> cleaned.value])

(***************************************************************************)
(* The validators applied to values of every type (SpecValidators) and     *)
(* sanitize_input applied to nested values (SpecSanitize).                 *)
(***************************************************************************)
MaxStrLen == 3

Strings == UNION {[1..n -> Alphabet] : n \in 0..MaxStrLen}
TextValues == {Text(s) : s \in Strings}

\* values that are not text: falsy and truthy ones of each type
OtherValues ==
    { IntV(0), IntV(5), BigInt, NoneV, ListV(<<>>), ListV(<<Text(<<"a">>)>>),
      DictV(<<>>), DictV(<<[v |-> IntV(1), k |-> <<"a">>]>>) }

EmailValues ==
    { Text(<<"a", "@", "b", ".", "a", "b">>),
      Text(<<"A", "@", "b", ".", "a", "b">>),
      Text(<<" ", "a", "@", "b", ".", "a", "b", " ">>),
      Text(<<"a", ".", "1", "@", "b", ".", "b", ".", "a", "b">>),
      Text(<<"a", "@", "b">>),
      Text(<<"a", "@", "b", ".", "a">>),
      Text(<<"a", "@", "b", ".", "a", "1">>),
      Text(<<"@", "b", ".", "a", "b">>),
      Text(<<"U+00E9", "@", "b", ".", "a", "b">>),
      Text(<<"a", " ", "@", "b", ".", "a", "b">>),
      Text(<<>>) }

NumericValues ==
    { IntV(n) : n \in -1..3 } \cup
    { Text(<<"1">>), Text(<<" ", "1">>), Text(<<"a">>), Text(<<>>),
      Text(<<"n", "a", "n">>), Text(<<"i", "n", "f">>), Text(<<"-", "i", "n", "f">>) }

NumericLimits == {NoneV, IntV(0), IntV(2)}

JsonValues ==
    { Text(<<"{", "}">>), Text(<<" ", "{", "}">>), Text(<<"[", "]">>), Text(<<"1">>),
      Text(<<"[", "1", "]">>), Text(<<"[", "[", "]", "]">>), Text(<<"{">>), Text(<<>>),
      Text(<<"{", "}", " ", " ", " ">>), Text(<<"[", "[", "1", "]", "]">>),
      Text(<<"{", "}", " ", " ", " ", " ">>) }

\* The validators read and write no state, so one call per behaviour covers
\* every call of a longer one.
NotCalled == call.op = "init"

Validated(op, args, result) ==
    /\ call' = [op |-> op, args |-> args]
    /\ ret' = result
    /\ exc' = IF "error" \in DOMAIN result THEN result.error ELSE "none"
    /\ UNCHANGED <<now, rlVars, hm_metrics, health_history, check_log, hm_lock,
                   hm_pc, hm_frame, appVars, mcVars>>

V_SanitizeString ==
    /\ NotCalled
    /\ \E value \in TextValues \cup OtherValues :
           Validated("sanitize_string", <<value>>, sanitize_string(value, max_length))

V_ValidateEmail ==
    /\ NotCalled
    /\ \E email \in EmailValues \cup OtherValues :
           Validated("validate_email", <<email>>, validate_email(email))

V_ValidateNumeric ==
    /\ NotCalled
    /\ \E value \in NumericValues \cup OtherValues, min_val, max_val \in NumericLimits :
           Validated("validate_numeric", <<value, min_val, max_val>>,
                     validate_numeric(value, min_val, max_val))

V_ValidateJson ==
    /\ NotCalled
    /\ \E data \in JsonValues \cup OtherValues :
           Validated("validate_json", <<data>>, validate_json(data, max_size))

V_SanitizeFilename ==
    /\ NotCalled
    /\ \E filename \in TextValues \cup OtherValues :
           Validated("sanitize_filename", <<filename>>, sanitize_filename(filename))

V_UploadFile ==
    /\ NotCalled
    /\ \E filename \in {Text(<<"a">>), Text(<<".">>), Text(<<" ">>), Text(<<>>)} \cup OtherValues,
          file_data \in {Text(<<"a">>), ListV(<<>>), IntV(5), NoneV} :
           Validated("upload_file", <<filename, file_data>>,
                     upload_file_fields(filename, file_data))

ValidatorsNext ==
    \/ V_SanitizeString
    \/ V_ValidateEmail
    \/ V_ValidateNumeric
    \/ V_ValidateJson
    \/ V_SanitizeFilename
    \/ V_UploadFile

ValidatorsInit == now = 0 /\ RLIdle /\ HMInitState /\ AppIdle /\ MCIdle

SpecValidators == ValidatorsInit /\ [][ValidatorsNext]_vars

\* nesting of the deepest value handed to sanitize_input
MaxDepth == 5

\* the strings at the leaves: kept, escaped, stripped, freed of a control
\* character, and one longer than max_length
LeafStrings ==
    { <<"a">>, <<"<">>, <<" ", "a">>, <<"NUL">>, <<>>,
      [i \in 1..(max_length + 1) |-> "a"] }

Leaves == {Text(s) : s \in LeafStrings} \cup {IntV(5), NoneV}

Keys == {<<"a">>, <<"<">>}

\* value wrapped in depth containers, lists and dicts alternating
RECURSIVE Nest(_, _)
Nest(value, depth) ==
    IF depth = 0 THEN value
    ELSE IF depth % 2 = 1 THEN ListV(<<Nest(value, depth - 1)>>)
    ELSE DictV(<<[v |-> Nest(value, depth - 1), k |-> <<"a">>]>>)

Trees ==
    Leaves
    \cup {ListV(<<>>), DictV(<<>>)}
    \cup {ListV(<<x, y>>) : x, y \in Leaves}
    \cup {DictV(<<[v |-> x, k |-> <<"a">>], [v |-> y, k |-> <<"<">>]>>) : x, y \in Leaves}
    \cup {ListV(<<DictV(<<[v |-> x, k |-> <<"<">>]>>), y>>) : x, y \in Leaves}
    \cup {Nest(x, d) : x \in Leaves, d \in 1..MaxDepth}

V_SanitizeInput ==
    /\ NotCalled
    /\ \E data \in Trees : Validated("sanitize_input", <<data>>, sanitize_input(data))

V_ConfigPost ==
    /\ NotCalled
    /\ \E data \in Trees : Validated("config_endpoint", <<data>>, config_post(data))

V_ValidateData ==
    /\ NotCalled
    /\ \E data \in Trees : Validated("validate_data", <<data>>, validate_data(data))

SanitizeNext == V_SanitizeInput \/ V_ConfigPost \/ V_ValidateData

SpecSanitize == ValidatorsInit /\ [][SanitizeNext]_vars

(***************************************************************************)
(* The locks of the three components (SpecLocks).  Each operation is       *)
(* reduced to the lock statements it executes, in program order: where it  *)
(* enters a "with self._lock" block, where it leaves it, and the           *)
(* statements it runs in between and outside.  mc_pc and mc_frame hold a   *)
(* thread's position in the operation it runs, of whichever component;     *)
(* completed counts the calls that have returned.                          *)
(***************************************************************************)
Locks == {"hm", "mc"}

\* a whole body inside "with self._lock"
Locked(lock) == <<<<"acquire", lock>>, <<"run", lock>>, <<"release", lock>>>>
\* statements outside every with block
Unlocked == <<<<"run", "none">>>>

\* MetricsCollector methods whose whole body is one with block
McLockedOps ==
    {"increment_counter", "set_gauge", "record_histogram", "get_metric",
     "get_all_metrics", "reset_metrics", "generate_prometheus_format"}

\* HealthMonitor methods whose whole body is one with block
HmLockedOps == {"record_request", "get_metrics", "hm_reset_metrics"}

LockOps ==
    McLockedOps \cup HmLockedOps \cup
    {"get_metrics_summary", "get_system_health", "get_detailed_health",
     "is_allowed", "GET /health"}

\* a deliberate nesting: the body of one component's with block calls into
\* the other component
LockPlan_nested(op) ==
    IF op \in HmLockedOps
    THEN <<<<"acquire", "hm">>>> \o Locked("mc") \o <<<<"release", "hm">>>>
    ELSE <<<<"acquire", "mc">>>> \o Locked("hm") \o <<<<"release", "mc">>>>

LockPlan(op) ==
    CASE op \in McLockedOps -> Locked("mc")
      [] op \in HmLockedOps -> Locked("hm")
      \* get_all_metrics(), then the loop over the copy
      [] op = "get_metrics_summary" -> Locked("mc") \o Unlocked
      \* sampling and classification, then _store_health_history
      [] op = "get_system_health" -> Unlocked \o Locked("hm")
      \* get_system_health(), then _get_health_summary and the psutil queries
      [] op = "get_detailed_health" -> Unlocked \o Locked("hm") \o Unlocked
      [] op = "is_allowed" -> Unlocked
      \* rate_limit, health(), then after_request's counter and histogram
      [] op = "GET /health" ->
             Unlocked \o Unlocked \o Locked("hm") \o Locked("mc") \o Locked("mc")

MaxLockCalls == 4

LockOf(lock) == IF lock = "hm" THEN hm_lock ELSE mc_lock
Held(th) == {lock \in Locks : LockOf(lock) = th}
Running(th) == mc_pc[th] = "running"
\* the statement th is about to execute; <<"return", "none">> after the last
NextStatement(th) ==
    LET plan == LockPlan(mc_frame[th].op) IN
    IF mc_frame[th].at > Len(plan) THEN <<"return", "none">> ELSE plan[mc_frame[th].at]

LockFrame ==
    UNCHANGED <<now, rlVars, hm_metrics, health_history, call, ret, exc, check_log,
                hm_pc, hm_frame, mc_metrics, resp, route_admitted,
                mc_log, snapshot, shared>>

Advance(th) == mc_frame' = [mc_frame EXCEPT ![th].at = @ + 1]

L_Call(th, op) ==
    /\ mc_pc[th] = "idle"
    /\ completed + Cardinality({t \in Threads : Running(t)}) < MaxLockCalls
    /\ mc_pc' = [mc_pc EXCEPT ![th] = "running"]
    /\ mc_frame' = [mc_frame EXCEPT ![th] = [op |-> op, at |-> 1]]
    /\ UNCHANGED <<hm_lock, mc_lock, completed>>
    /\ LockFrame

\* threading.Lock is not reentrant: the owner blocks like any other thread
L_Acquire(th) ==
    /\ Running(th)
    /\ NextStatement(th)[1] = "acquire"
    /\ LockAvailable(LockOf(NextStatement(th)[2]))
    /\ IF NextStatement(th)[2] = "hm"
       THEN hm_lock' = th /\ UNCHANGED mc_lock
       ELSE mc_lock' = th /\ UNCHANGED hm_lock
    /\ Advance(th)
    /\ UNCHANGED <<mc_pc, completed>>
    /\ LockFrame

L_Run(th) ==
    /\ Running(th)
    /\ NextStatement(th)[1] = "run"
    /\ Advance(th)
    /\ UNCHANGED <<hm_lock, mc_lock, mc_pc, completed>>
    /\ LockFrame

L_Release(th) ==
    /\ Running(th)
    /\ NextStatement(th)[1] = "release"
    /\ IF NextStatement(th)[2] = "hm"
       THEN hm_lock' = "free" /\ UNCHANGED mc_lock
       ELSE mc_lock' = "free" /\ UNCHANGED hm_lock
    /\ Advance(th)
    /\ UNCHANGED <<mc_pc, completed>>
    /\ LockFrame

L_Return(th) ==
    /\ Running(th)
    /\ NextStatement(th)[1] = "return"
    /\ mc_pc' = [mc_pc EXCEPT ![th] = "idle"]
    /\ mc_frame' = [mc_frame EXCEPT ![th] = None]
    /\ completed' = completed + 1
    /\ UNCHANGED <<hm_lock, mc_lock>>
    /\ LockFrame

L_Step(th) == L_Acquire(th) \/ L_Run(th) \/ L_Release(th) \/ L_Return(th)

LocksNext ==
    \/ \E th \in Threads, op \in LockOps : L_Call(th, op)
    \/ \E th \in Threads : L_Acquire(th)
    \/ \E th \in Threads : L_Run(th)
    \/ \E th \in Threads : L_Release(th)
    \/ \E th \in Threads : L_Return(th)

\* The scheduler runs every thread that can take a step: weak fairness of
\* each thread's steps.  Nothing is assumed about which waiting thread gets
\* a lock that is released.
SpecLocks ==
    /\ ValidatorsInit
    /\ [][LocksNext]_vars
    /\ \A th \in Threads : WF_vars(L_Step(th))

(***************************************************************************)
(* Concurrent updates, with each "x += 1" split into the read of x and the *)
(* write of the sum, as the interpreter executes it (SpecLostUpdate).      *)
(* Threads call increment_counter with the default value 1 on one series,  *)
(* record_histogram on one series and HealthMonitor.record_request.        *)
(* mc_pc and mc_frame hold a thread's position and locals; mc_log lists    *)
(* the collector calls that returned and completed counts the              *)
(* record_request calls that returned.                                     *)
(***************************************************************************)
MaxUpdates == 3

UpdateOps == {"increment_counter", "record_histogram", "record_request"}
CounterName == <<"hits">>
HistogramName == <<"latency">>
NoLabels == <<>>

UpdatesStarted ==
    Len(mc_log) + completed + Cardinality({th \in Threads : mc_pc[th] # "idle"})

\* the lines of record_histogram before the one that adds to _count
BeforeCount(m, name, value, labels, t) ==
    LET sum_key == get_metric_key(name \o <<"sum">>, labels)
        count_key == get_metric_key(name \o <<"count">>, labels)
        s1 == Seeded(RecordBuckets(m, name, value, labels, Buckets, t),
                     sum_key, labels, t)
        s2 == Seeded(s1, count_key, labels, t)
    IN  [s2 EXCEPT ![sum_key].value = @ + value]

\* lines 73-74
StampSumCount(m, name, labels, t) ==
    [m EXCEPT ![get_metric_key(name \o <<"sum">>, labels)].timestamp = t,
              ![get_metric_key(name \o <<"count">>, labels)].timestamp = t]

\* the key whose value the += of the operation reads and writes
UpdatedKey(op) ==
    IF op = "increment_counter" THEN get_metric_key(CounterName, NoLabels)
    ELSE get_metric_key(HistogramName \o <<"count">>, NoLabels)

UFrame ==
    UNCHANGED <<now, rlVars, health_history, call, ret, exc, check_log, hm_pc,
                hm_frame, resp, route_admitted, snapshot, shared>>

U_Call(th) ==
    /\ mc_pc[th] = "idle"
    /\ UpdatesStarted < MaxUpdates
    /\ \E op \in UpdateOps, success \in BOOLEAN :
           mc_frame' = [mc_frame EXCEPT ![th] =
                           [op |-> op, success |-> success, read |-> 0]]
    /\ MGoto(th, "with")
    /\ UNCHANGED <<mc_metrics, hm_metrics, mc_lock, hm_lock, mc_log, completed>>
    /\ UFrame

\* with self._lock
U_Acquire(th) ==
    /\ mc_pc[th] = "with"
    /\ IF mc_frame[th].op = "record_request"
       THEN /\ LockAvailable(hm_lock)
            /\ hm_lock' = th
            /\ MGoto(th, "read")
            /\ UNCHANGED mc_lock
       ELSE /\ LockAvailable(mc_lock)
            /\ mc_lock' = th
            /\ MGoto(th, "before")
            /\ UNCHANGED hm_lock
    /\ UNCHANGED <<mc_metrics, hm_metrics, mc_frame, mc_log, completed>>
    /\ UFrame

\* increment_counter lines 33-35, record_histogram lines 49-71
U_Before(th) ==
    /\ mc_pc[th] = "before"
    /\ mc_metrics' =
           IF mc_frame[th].op = "increment_counter"
           THEN Seeded(mc_metrics, UpdatedKey("increment_counter"), NoLabels, now)
           ELSE BeforeCount(mc_metrics, HistogramName, 1, NoLabels, now)
    /\ MGoto(th, "read")
    /\ UNCHANGED <<hm_metrics, mc_frame, mc_lock, hm_lock, mc_log, completed>>
    /\ UFrame

\* the read of "+= 1": metrics.py lines 36 and 72, health.py line 103
U_Read(th) ==
    /\ mc_pc[th] = "read"
    /\ mc_frame' = [mc_frame EXCEPT ![th].read =
                       IF mc_frame[th].op = "record_request"
                       THEN hm_metrics.requests_total
                       ELSE mc_metrics[UpdatedKey(mc_frame[th].op)].value]
    /\ MGoto(th, "write")
    /\ UNCHANGED <<mc_metrics, hm_metrics, mc_lock, hm_lock, mc_log, completed>>
    /\ UFrame

\* the write of "+= 1"
U_Write(th) ==
    /\ mc_pc[th] = "write"
    /\ IF mc_frame[th].op = "record_request"
       THEN /\ hm_metrics' = [hm_metrics EXCEPT !.requests_total = mc_frame[th].read + 1]
            /\ UNCHANGED mc_metrics
       ELSE /\ mc_metrics' = [mc_metrics EXCEPT
                                 ![UpdatedKey(mc_frame[th].op)].value = mc_frame[th].read + 1]
            /\ UNCHANGED hm_metrics
    /\ MGoto(th, "after")
    /\ UNCHANGED <<mc_frame, mc_lock, hm_lock, mc_log, completed>>
    /\ UFrame

\* increment_counter line 37, record_histogram lines 73-74, record_request
\* lines 104-114
U_After(th) ==
    /\ mc_pc[th] = "after"
    /\ CASE mc_frame[th].op = "increment_counter" ->
                /\ mc_metrics' = [mc_metrics EXCEPT
                                     ![UpdatedKey("increment_counter")].timestamp = now]
                /\ UNCHANGED hm_metrics
         [] mc_frame[th].op = "record_histogram" ->
                /\ mc_metrics' = StampSumCount(mc_metrics, HistogramName, NoLabels, now)
                /\ UNCHANGED hm_metrics
         [] mc_frame[th].op = "record_request" ->
                /\ hm_metrics' = UpdateAverage(CountOutcome(hm_metrics, mc_frame[th].success), 2)
                /\ UNCHANGED mc_metrics
    /\ MGoto(th, "exit")
    /\ UNCHANGED <<mc_frame, mc_lock, hm_lock, mc_log, completed>>
    /\ UFrame

\* leaving the with block
U_Release(th) ==
    /\ mc_pc[th] = "exit"
    /\ IF mc_frame[th].op = "record_request"
       THEN /\ hm_lock' = "free"
            /\ completed' = completed + 1
            /\ UNCHANGED <<mc_lock, mc_log>>
       ELSE /\ mc_lock' = "free"
            /\ Logged(mc_frame[th].op,
                      IF mc_frame[th].op = "increment_counter" THEN CounterName
                      ELSE HistogramName, NoLabels, 1)
            /\ UNCHANGED <<hm_lock, completed>>
    /\ mc_frame' = [mc_frame EXCEPT ![th] = None]
    /\ MGoto(th, "idle")
    /\ UNCHANGED <<mc_metrics, hm_metrics>>
    /\ UFrame

LostUpdateNext ==
    \/ \E th \in Threads : U_Call(th)
    \/ \E th \in Threads : U_Acquire(th)
    \/ \E th \in Threads : U_Before(th)
    \/ \E th \in Threads : U_Read(th)
    \/ \E th \in Threads : U_Write(th)
    \/ \E th \in Threads : U_After(th)
    \/ \E th \in Threads : U_Release(th)

SpecLostUpdate == ValidatorsInit /\ [][LostUpdateNext]_vars

(***************************************************************************)
(* get_system_health statement by statement, next to record_request and    *)
(* reset_metrics (SpecSnapshotConc).  get_system_health reads self.metrics *)
(* without the lock, one subscript at a time, and calls                    *)
(* _calculate_success_rate three times: for the snapshot (line 54) and in  *)
(* the two status tests (lines 66 and 70).                                 *)
(***************************************************************************)
MaxSnapshots == 1

\* the thread that asks for snapshots; the other one serves requests
SnapshotThread == "t1"

SnapshotSamples == {<<50, 50, 50>>, <<93, 50, 50>>}

SnapshotsStarted ==
    Len(check_log) + Cardinality({th \in Threads :
                                     hm_pc[th] # "idle" /\ hm_frame[th].op = "get_system_health"})

GFrame == <<now, rlVars, appVars, mcVars>>

\* the call, up to the try statement
G_Call(th) ==
    /\ th = SnapshotThread
    /\ hm_pc[th] = "idle"
    /\ SnapshotsStarted < MaxSnapshots
    /\ hm_frame' = [hm_frame EXCEPT ![th] =
                       [op |-> "get_system_health", status |-> "healthy",
                        cpu |-> 0, mem |-> 0, disk |-> 0,
                        requests_total |-> 0, requests_successful |-> 0,
                        requests_failed |-> 0, average_response_time |-> Frac(0, 1),
                        success_rate |-> Frac(1, 1), total |-> 0, site |-> "none"]]
    /\ HGoto(th, "L35")
    /\ UNCHANGED <<hm_metrics, health_history, check_log, hm_lock, call, ret, exc, GFrame>>

\* lines 35-40: the three samples, and 'status': 'healthy'
G_Sample(th) ==
    /\ hm_pc[th] = "L35"
    /\ \E s \in SnapshotSamples :
           hm_frame' = [hm_frame EXCEPT ![th].cpu = s[1], ![th].mem = s[2],
                                        ![th].disk = s[3]]
    /\ HGoto(th, "L51")
    /\ UNCHANGED <<hm_metrics, health_history, check_log, hm_lock, call, ret, exc, GFrame>>

\* line 51
G_ReadTotal(th) ==
    /\ hm_pc[th] = "L51"
    /\ hm_frame' = [hm_frame EXCEPT ![th].requests_total = hm_metrics.requests_total]
    /\ HGoto(th, "L52")
    /\ UNCHANGED <<hm_metrics, health_history, check_log, hm_lock, call, ret, exc, GFrame>>

\* line 52
G_ReadSuccessful(th) ==
    /\ hm_pc[th] = "L52"
    /\ hm_frame' = [hm_frame EXCEPT
                       ![th].requests_successful = hm_metrics.requests_successful]
    /\ HGoto(th, "L53")
    /\ UNCHANGED <<hm_metrics, health_history, check_log, hm_lock, call, ret, exc, GFrame>>

\* line 53, and the call of line 54
G_ReadFailed(th) ==
    /\ hm_pc[th] = "L53"
    /\ hm_frame' = [hm_frame EXCEPT ![th].requests_failed = hm_metrics.requests_failed,
                                    ![th].site = "L54"]
    /\ HGoto(th, "L150")
    /\ UNCHANGED <<hm_metrics, health_history, check_log, hm_lock, call, ret, exc, GFrame>>

\* what the caller does with the rate _calculate_success_rate returned
RateReturned(frame, rate) ==
    CASE frame.site = "L54" -> [frame EXCEPT !.success_rate = rate]
      [] frame.site = "L66" ->
             IF DegradedCond(frame.cpu, frame.mem, frame.disk, rate)
             THEN [frame EXCEPT !.status = "degraded"] ELSE frame
      [] frame.site = "L70" ->
             IF UnhealthyCond(frame.cpu, frame.mem, frame.disk, rate)
             THEN [frame EXCEPT !.status = "unhealthy"] ELSE frame

AfterSite(site) ==
    CASE site = "L54" -> "L55"
      [] site = "L66" -> "L69"
      [] site = "L70" -> "L74"

\* lines 150-152: total = self.metrics['requests_total']; 1.0 when it is 0
G_RateTotal(th) ==
    /\ hm_pc[th] = "L150"
    /\ IF hm_metrics.requests_total = 0
       THEN /\ hm_frame' = [hm_frame EXCEPT ![th] = RateReturned(@, [num |-> 1, den |-> 1])]
            /\ HGoto(th, AfterSite(hm_frame[th].site))
       ELSE /\ hm_frame' = [hm_frame EXCEPT ![th].total = hm_metrics.requests_total]
            /\ HGoto(th, "L153")
    /\ UNCHANGED <<hm_metrics, health_history, check_log, hm_lock, call, ret, exc, GFrame>>

\* line 153: self.metrics['requests_successful'] / total
G_RateDivide(th) ==
    /\ hm_pc[th] = "L153"
    /\ hm_frame' = [hm_frame EXCEPT ![th] =
                       RateReturned(@, [num |-> hm_metrics.requests_successful,
                                        den |-> hm_frame[th].total])]
    /\ HGoto(th, AfterSite(hm_frame[th].site))
    /\ UNCHANGED <<hm_metrics, health_history, check_log, hm_lock, call, ret, exc, GFrame>>

\* line 55
G_ReadAverage(th) ==
    /\ hm_pc[th] = "L55"
    /\ hm_frame' = [hm_frame EXCEPT
                       ![th].average_response_time = hm_metrics.average_response_time]
    /\ HGoto(th, "L65")
    /\ UNCHANGED <<hm_metrics, health_history, check_log, hm_lock, call, ret, exc, GFrame>>

\* lines 65-67: the rate is computed only when no sample exceeds 90
G_Degraded(th) ==
    /\ hm_pc[th] = "L65"
    /\ IF hm_frame[th].cpu > 90 \/ hm_frame[th].mem > 90 \/ hm_frame[th].disk > 90
       THEN /\ hm_frame' = [hm_frame EXCEPT ![th].status = "degraded"]
            /\ HGoto(th, "L69")
       ELSE /\ hm_frame' = [hm_frame EXCEPT ![th].site = "L66"]
            /\ HGoto(th, "L150")
    /\ UNCHANGED <<hm_metrics, health_history, check_log, hm_lock, call, ret, exc, GFrame>>

\* lines 69-71: the rate is computed only when no sample exceeds 95
G_Unhealthy(th) ==
    /\ hm_pc[th] = "L69"
    /\ IF hm_frame[th].cpu > 95 \/ hm_frame[th].mem > 95 \/ hm_frame[th].disk > 95
       THEN /\ hm_frame' = [hm_frame EXCEPT ![th].status = "unhealthy"]
            /\ HGoto(th, "L74")
       ELSE /\ hm_frame' = [hm_frame EXCEPT ![th].site = "L70"]
            /\ HGoto(th, "L150")
    /\ UNCHANGED <<hm_metrics, health_history, check_log, hm_lock, call, ret, exc, GFrame>>

\* the dictionary get_system_health has built
BuiltSnapshot(frame, t) ==
    [status |-> frame.status,
     timestamp |-> t,
     cpu_percent |-> frame.cpu,
     memory_percent |-> frame.mem,
     disk_percent |-> frame.disk,
     requests_total |-> frame.requests_total,
     requests_successful |-> frame.requests_successful,
     requests_failed |-> frame.requests_failed,
     success_rate |-> frame.success_rate,
     average_response_time |-> frame.average_response_time]

\* line 74 and line 157: with self._lock
G_Acquire(th) ==
    /\ hm_pc[th] = "L74"
    /\ LockAvailable(hm_lock)
    /\ hm_lock' = th
    /\ HGoto(th, "L158")
    /\ UNCHANGED <<hm_metrics, health_history, check_log, hm_frame, call, ret, exc, GFrame>>

\* lines 158-160
G_Store(th) ==
    /\ hm_pc[th] = "L158"
    /\ health_history' =
           store_health_history(health_history, BuiltSnapshot(hm_frame[th], now))
    /\ HGoto(th, "L76")
    /\ UNCHANGED <<hm_metrics, check_log, hm_lock, hm_frame, call, ret, exc, GFrame>>

\* leaving the with block, and line 76
G_Return(th) ==
    /\ hm_pc[th] = "L76"
    /\ hm_lock' = "free"
    /\ call' = [op |-> "get_system_health", thread |-> th]
    /\ ret' = BuiltSnapshot(hm_frame[th], now)
    /\ exc' = "none"
    /\ check_log' = Append(check_log, hm_frame[th].status)
    /\ hm_frame' = [hm_frame EXCEPT ![th] = None]
    /\ HGoto(th, "idle")
    /\ UNCHANGED <<hm_metrics, health_history, GFrame>>

\* record_request and reset_metrics of the other threads
G_Writer(th) ==
    \/ /\ th # SnapshotThread
       /\ Y_Call(th)
       /\ hm_frame'[th].op # "get_metrics"
    \/ Y_Acquire(th)
    \/ Y_CountRequest(th)
    \/ Y_CountOutcome(th)
    \/ Y_UpdateAverage(th)
    \/ Y_Reset(th)
    \/ Y_Release(th)

SnapshotConcNext ==
    \/ \E th \in Threads : G_Call(th)
    \/ \E th \in Threads : G_Sample(th)
    \/ \E th \in Threads : G_ReadTotal(th)
    \/ \E th \in Threads : G_ReadSuccessful(th)
    \/ \E th \in Threads : G_ReadFailed(th)
    \/ \E th \in Threads : G_RateTotal(th)
    \/ \E th \in Threads : G_RateDivide(th)
    \/ \E th \in Threads : G_ReadAverage(th)
    \/ \E th \in Threads : G_Degraded(th)
    \/ \E th \in Threads : G_Unhealthy(th)
    \/ \E th \in Threads : G_Acquire(th)
    \/ \E th \in Threads : G_Store(th)
    \/ \E th \in Threads : G_Return(th)
    \/ \E th \in Threads : G_Writer(th)

SpecSnapshotConc == HInit /\ [][SnapshotConcNext]_vars

(***************************************************************************)
(* Properties.                                                             *)
(***************************************************************************)
\* how often each status occurs in a list of statuses
CountsOf(statuses) ==
    [s \in {statuses[i] : i \in 1..Len(statuses)} |->
        Cardinality({i \in 1..Len(statuses) : statuses[i] = s})]

CountIn(seq, lo, hi) == Cardinality({i \in 1..Len(seq) : seq[i] > lo /\ seq[i] <= hi})

\* C1: for every key, the calls that returned True with timestamps inside any
\* window of window_size seconds (end - window_size, end] number at most
\* max_requests.
C1_AtMostMaxPerWindow ==
    \A ip \in IPs : \A end \in Times :
        CountIn(admitted[ip], end - window_size, end) <= max_requests

\* a key that filled a window, was rejected, and was admitted again later
C1_Witness ==
    \E ip \in IPs :
        /\ rejected[ip] > 0
        /\ Len(admitted[ip]) > max_requests

AllIdle == \A th \in Threads : rl_pc[th] = "idle"

\* C2: concurrent is_allowed calls for one key behave as some serial order of
\* them: no window of window_size seconds holds more than max_requests
\* admissions, and once the calls have returned, every admission still inside
\* the window is stored in the key's list.
C2_Linearizable ==
    \A ip \in IPs :
        /\ \A end \in Times :
               CountIn(admitted[ip], end - window_size, end) <= max_requests
        /\ AllIdle /\ ip \in DOMAIN requests =>
               CountIn(admitted[ip], now - window_size, now)
                   <= CountIn(requests[ip], now - window_size, now)
        /\ AllIdle /\ ip \notin DOMAIN requests => admitted[ip] = <<>>

\* C3: a route declared with rate_limit(max_requests=M, window=W) lets at most
\* M requests of one client through within any W seconds, and turns a request
\* away only when that client's requests to that route have used up M.
C3_PerRouteLimit ==
    \A ip \in IPs : \A route \in Endpoints :
        /\ \A end \in Times :
               CountIn(route_admitted[ip][route], end - DeclaredWindow(route), end)
                   <= DeclaredMax(route)
        /\ (resp # None /\ resp.status = 429 /\ resp.ip = ip /\ resp.route = route) =>
               CountIn(route_admitted[ip][route], resp.at - DeclaredWindow(route), resp.at)
                   >= DeclaredMax(route)

\* C4: after n answered requests the tally's requests_total is n, and so is
\* requests_successful + requests_failed.
C4_OneOutcomePerRequest ==
    /\ hm_metrics.requests_total = completed
    /\ hm_metrics.requests_successful + hm_metrics.requests_failed = completed

\* the classification as the specification words it: unhealthy first
SpecifiedStatus(cpu, mem, disk, successful, total) ==
    LET below(pct) == total # 0 /\ 100 * successful < pct * total
    IN  IF cpu > 95 \/ mem > 95 \/ disk > 95 \/ below(90) THEN "unhealthy"
        ELSE IF cpu > 90 \/ mem > 90 \/ disk > 90 \/ below(95) THEN "degraded"
        ELSE "healthy"

Sampled == call.op = "get_system_health" /\ call.failure = "none"

\* C5: when sampling succeeds the returned status is 'unhealthy' if a resource
\* is above 95 or the success rate below 0.90, else 'degraded' if a resource
\* is above 90 or the rate below 0.95, else 'healthy'; the rate is
\* successful/total, and 1.0 when total is 0.
C5_Classification ==
    Sampled =>
        /\ ret.requests_total = hm_metrics.requests_total
        /\ ret.requests_successful = hm_metrics.requests_successful
        /\ ret.status = SpecifiedStatus(ret.cpu_percent, ret.memory_percent,
                                        ret.disk_percent, ret.requests_successful,
                                        ret.requests_total)
        /\ IF ret.requests_total = 0
           THEN ret.success_rate.num = ret.success_rate.den
           ELSE ret.success_rate.num * ret.requests_total
                    = ret.requests_successful * ret.success_rate.den

\* a check that is degraded by its success rate alone: 0.90 <= rate < 0.95
C5_Witness ==
    /\ Sampled
    /\ ret.status = "degraded"
    /\ ret.cpu_percent = 90 /\ ret.memory_percent = 90 /\ ret.disk_percent = 90
    /\ hm_metrics.requests_total = 10

RateIs(snap, num, den) ==
    /\ snap.requests_total > 0
    /\ snap.requests_successful * den = num * snap.requests_total

ResourcesUnder90(snap) ==
    snap.cpu_percent < 90 /\ snap.memory_percent < 90 /\ snap.disk_percent < 90

\* C6 as stated: a success rate of 0.85 with all resources under 90% yields
\* 'degraded'; a success rate of 0.5 with nominal resources yields 'unhealthy'.
C6_AsStated ==
    Sampled =>
        /\ (RateIs(ret, 17, 20) /\ ResourcesUnder90(ret) => ret.status = "degraded")
        /\ (RateIs(ret, 1, 2) /\ ResourcesUnder90(ret) => ret.status = "unhealthy")

\* C6 amended: a success rate of 0.85 with all resources under 90% yields
\* 'unhealthy' (0.85 < 0.90), and so does a success rate of 0.5.
C6_Amended ==
    Sampled =>
        /\ (RateIs(ret, 17, 20) /\ ResourcesUnder90(ret) => ret.status = "unhealthy")
        /\ (RateIs(ret, 1, 2) /\ ResourcesUnder90(ret) => ret.status = "unhealthy")

C6_Witness ==
    Sampled /\ RateIs(ret, 17, 20) /\ ResourcesUnder90(ret) /\ ret.requests_total = 20

IsCheckStep == Len(check_log') = Len(check_log) + 1

\* C7: get_system_health never raises; when a sample cannot be taken it
\* returns a snapshot of status 'error' carrying the reason, and leaves the
\* tally and the stored history as they were.
C7_SamplingFailureContained ==
    [][IsCheckStep =>
        /\ exc' = "none"
        /\ call'.failure # "none" =>
              /\ ret'.status = "error"
              /\ ret'.error = call'.failure
              /\ hm_metrics' = hm_metrics
              /\ \A i \in 1..Len(health_history) :
                    i \in 1..Len(health_history') /\ health_history'[i] = health_history[i]
      ]_vars

C7_Witness ==
    /\ call.op = "get_system_health"
    /\ call.failure # "none"
    /\ ret.status = "error"
    /\ health_history # <<>>
    /\ hm_metrics.requests_total > 0

\* C8: every get_system_health call appends exactly one snapshot to the
\* history, the one it returns, whatever its status.
C8_EveryCheckAppends ==
    [][IsCheckStep =>
        /\ Len(health_history) < max_history_size =>
              health_history' = Append(health_history, ret')
        /\ Len(health_history) = max_history_size =>
              health_history' = Append(Tail(health_history), ret')
      ]_vars

InSummary(th) == hm_pc[th] \in {"L167", "L174"}

\* C9: in every state a _get_health_summary observes, also while another
\* thread is storing a snapshot, the history holds at most max_history_size
\* snapshots, and so does every total it reports.
C9_BoundedHistoryObserved ==
    /\ (\E th \in Threads : InSummary(th)) => Len(health_history) <= max_history_size
    /\ (call.op = "_get_health_summary" /\ ret # <<>>) =>
           ret.total_checks <= max_history_size

\* C10: the summary reports the number of checks ever performed, the statuses
\* of the last RecentN checks in order, and counts that agree with that list.
C10_SummaryOfAllChecks ==
    call.op = "_get_health_summary" /\ checks > 0 =>
        /\ ret # <<>>
        /\ ret.total_checks = checks
        /\ ret.last_10_statuses = LastN(check_log, RecentN)
        /\ ret.recent_status_distribution = CountsOf(ret.last_10_statuses)

\* the value stored under a key, 0 for a series that does not exist yet
ValueOf(m, key) == IF key \in DOMAIN m THEN m[key].value ELSE 0

SumKey(name, labels) == get_metric_key(name \o <<"sum">>, labels)
CountKey(name, labels) == get_metric_key(name \o <<"count">>, labels)

\* the step is a completed update of the collector, logged as e
IsUpdateStep(op) ==
    /\ Len(mc_log') = Len(mc_log) + 1
    /\ mc_log'[Len(mc_log')].op = op

LastUpdate == mc_log[Len(mc_log)]

\* C11: record_histogram(name, v, L) adds one to exactly the buckets whose
\* boundary b satisfies v <= b and leaves the other buckets as they were; it
\* always adds one to the _count series and v to the _sum series of the
\* same name and labels, also when v is above the largest boundary.
C11_HistogramStep ==
    [][IsUpdateStep("record_histogram") =>
        LET e == mc_log'[Len(mc_log')]
        IN  /\ \A i \in 1..Len(Buckets) :
                   ValueOf(mc_metrics', BucketKey(e.name, e.labels, Buckets[i]))
                   = ValueOf(mc_metrics, BucketKey(e.name, e.labels, Buckets[i]))
                     + (IF e.value <= Buckets[i] THEN 1 ELSE 0)
            /\ ValueOf(mc_metrics', CountKey(e.name, e.labels))
               = ValueOf(mc_metrics, CountKey(e.name, e.labels)) + 1
            /\ ValueOf(mc_metrics', SumKey(e.name, e.labels))
               = ValueOf(mc_metrics, SumKey(e.name, e.labels)) + e.value]_vars

\* an observation of 0.1 s counted in every bucket, after one above 60 s
\* that was counted in none
C11_Witness ==
    /\ Len(mc_log) = 2
    /\ mc_log[1].op = "record_histogram" /\ mc_log[1].value > 600
    /\ mc_log[2].op = "record_histogram" /\ mc_log[2].value = 1
    /\ mc_log[1].name = mc_log[2].name /\ mc_log[1].labels = mc_log[2].labels
    /\ \A i \in 1..Len(Buckets) :
           ValueOf(mc_metrics, BucketKey(LastUpdate.name, LastUpdate.labels, Buckets[i])) = 1
    /\ ValueOf(mc_metrics, CountKey(LastUpdate.name, LastUpdate.labels)) = 2
    /\ ValueOf(mc_metrics, SumKey(LastUpdate.name, LastUpdate.labels)) = 701

\* the observations recorded for one (name, labels) pair, in order
RECURSIVE ObservedValues(_, _, _)
ObservedValues(log, name, labels) ==
    IF log = <<>> THEN <<>>
    ELSE (IF /\ log[1].op = "record_histogram"
             /\ log[1].name = name
             /\ log[1].labels = labels
          THEN <<log[1].value>> ELSE <<>>)
         \o ObservedValues(Tail(log), name, labels)

RECURSIVE SumOf(_)
SumOf(seq) == IF seq = <<>> THEN 0 ELSE seq[1] + SumOf(Tail(seq))

\* C12: whenever no record_histogram call is inside the collector's lock, for
\* every (name, labels) pair: the count of a smaller boundary is at most the
\* count of a larger one, every bucket count is at most _count, _count is the
\* number of recorded observations and _sum is their total; and no step of
\* any thread decreases a stored value.
C12_HistogramInvariant ==
    /\ [](mc_lock = "free" =>
            \A sr \in HistSeries :
                LET observed == ObservedValues(mc_log, sr.name, sr.labels)
                    Bucket(i) == ValueOf(mc_metrics, BucketKey(sr.name, sr.labels, Buckets[i]))
                    count == ValueOf(mc_metrics, CountKey(sr.name, sr.labels))
                IN  /\ \A i, j \in 1..Len(Buckets) : i < j => Bucket(i) <= Bucket(j)
                    /\ \A i \in 1..Len(Buckets) : Bucket(i) <= count
                    /\ count = Len(observed)
                    /\ ValueOf(mc_metrics, SumKey(sr.name, sr.labels)) = SumOf(observed))
    /\ [][\A key \in DOMAIN mc_metrics :
              /\ key \in DOMAIN mc_metrics'
              /\ mc_metrics'[key].value >= mc_metrics[key].value]_vars

\* two observations of one pair are recorded and a third call is waiting for
\* the lock
C12_Witness ==
    /\ mc_lock = "free"
    /\ Len(mc_log) = 2
    /\ mc_log[1].name = mc_log[2].name /\ mc_log[1].labels = mc_log[2].labels
    /\ mc_log[1].value = 450 /\ mc_log[2].value = 1
    /\ \E th \in Threads : mc_pc[th] = "L47"
    /\ ValueOf(mc_metrics, BucketKey(mc_log[1].name, mc_log[1].labels, 1)) = 1
    /\ ValueOf(mc_metrics, BucketKey(mc_log[1].name, mc_log[1].labels, 600)) = 2

\* the deltas of the increment_counter calls that addressed a stored key
RECURSIVE DeltasOf(_, _)
DeltasOf(log, key) ==
    IF log = <<>> THEN <<>>
    ELSE (IF /\ log[1].op = "increment_counter"
             /\ get_metric_key(log[1].name, log[1].labels) = key
          THEN <<log[1].value>> ELSE <<>>)
         \o DeltasOf(Tail(log), key)

OnlyIncrements(log) == \A i \in 1..Len(log) : log[i].op = "increment_counter"

\* C13: increment_counter on a missing series leaves it at 0 + delta; no
\* increment_counter call with a non-negative delta decreases the value of a
\* series; and after a sequence of increment_counter calls the value of every
\* series is the sum of the deltas applied to it.
C13_CounterMonotone ==
    /\ [][IsUpdateStep("increment_counter") =>
            LET e == mc_log'[Len(mc_log')]
                key == get_metric_key(e.name, e.labels)
            IN  /\ mc_metrics'[key].value = ValueOf(mc_metrics, key) + e.value
                /\ \A k \in DOMAIN mc_metrics :
                       /\ k \in DOMAIN mc_metrics'
                       /\ mc_metrics'[k].value >= mc_metrics[k].value]_vars
    /\ [](OnlyIncrements(mc_log) =>
            \A key \in DOMAIN mc_metrics :
                mc_metrics[key].value = SumOf(DeltasOf(mc_log, key)))

\* a series created by an increment of 2 and incremented by 2 again
C13_Witness ==
    /\ Len(mc_log) = 2
    /\ OnlyIncrements(mc_log)
    /\ mc_log[1].value = 2 /\ mc_log[2].value = 2
    /\ mc_log[1].name = mc_log[2].name /\ mc_log[1].labels = mc_log[2].labels
    /\ mc_metrics[get_metric_key(mc_log[1].name, mc_log[1].labels)].value = 4

\* the deltas of the increment_counter calls made with one name and labels
RECURSIVE DeltasFor(_, _, _)
DeltasFor(log, name, labels) ==
    IF log = <<>> THEN <<>>
    ELSE (IF /\ log[1].op = "increment_counter"
             /\ log[1].name = name
             /\ log[1].labels = labels
          THEN <<log[1].value>> ELSE <<>>)
         \o DeltasFor(Tail(log), name, labels)

\* C14: two updates address the same stored series exactly when they carry
\* the same name and the same label pairs; so after increment_counter calls
\* alone, what get_metric(name, labels) returns is the sum of the deltas of
\* the calls made with that name and those labels, whatever other names and
\* labels were used.
C14_SeriesIdentity ==
    OnlyIncrements(mc_log) =>
        \A i, j \in 1..Len(mc_log) :
            /\ (get_metric_key(mc_log[i].name, mc_log[i].labels)
                    = get_metric_key(mc_log[j].name, mc_log[j].labels))
               <=> (mc_log[i].name = mc_log[j].name /\ mc_log[i].labels = mc_log[j].labels)
            /\ get_metric(mc_metrics, mc_log[i].name, mc_log[i].labels).value
               = SumOf(DeltasFor(mc_log, mc_log[i].name, mc_log[i].labels))

\* C15: the mapping get_all_metrics returned is a point-in-time copy: no
\* later increment_counter, set_gauge, record_histogram or reset changes a
\* name, value, label or timestamp seen through it, and a change made
\* through it does not change the collector.
C15_PointInTimeCopy ==
    /\ [][(MIncrement \/ MSetGauge \/ MRecord \/ MReset) => snapshot' = snapshot]_vars
    /\ [][MCallerAssigns => mc_metrics' = mc_metrics]_vars

\* the keys of the series record_histogram(name, ..., labels) writes
HistogramKeys(name, labels) ==
    {SumKey(name, labels), CountKey(name, labels)}
    \cup {BucketKey(name, labels, Buckets[i]) : i \in 1..Len(Buckets)}

\* C16: in the exposition and in the summary, every stored series that
\* record_histogram created (base name ending in _sum, _count or _bucket,
\* with or without labels) is in the histogram family and in neither the
\* counter nor the gauge family.
C16_HistogramFamily ==
    (/\ call # None
     /\ call.op \in {"generate_prometheus_format", "get_metrics_summary"}
     /\ exc = "none")
    => \A i \in 1..Len(mc_log) :
           mc_log[i].op = "record_histogram" =>
               \A key \in HistogramKeys(mc_log[i].name, mc_log[i].labels) \cap DOMAIN mc_metrics :
                   /\ key \in DOMAIN ret.histograms
                   /\ key \notin DOMAIN ret.counters
                   /\ key \notin DOMAIN ret.gauges

\* C17: a failure while rendering the recorded series does not make the
\* metrics endpoint fail: every scrape the limiter admits is answered 200
\* with an exposition (empty or partial at worst).
C17_ScrapeSurvives ==
    (resp # None /\ resp.route = "metrics" /\ resp.status # 429) =>
        /\ resp.status = 200
        /\ DOMAIN resp.body = {"counters", "gauges", "histograms"}

\* thread th leaves record_request in this step
RecordRequestReturns(th) ==
    /\ hm_pc[th] = "exit"
    /\ hm_pc'[th] = "idle"
    /\ hm_frame[th].op = "record_request"

\* C18: between taking and releasing the lock, a record_request call has
\* added one to requests_total and one to exactly one of requests_successful
\* and requests_failed, and nothing else has changed them; and whatever
\* record_request, reset_metrics and get_metrics calls run on other threads,
\* every tally get_metrics returns has
\* requests_total = requests_successful + requests_failed.
C18_TallyAtomic ==
    /\ [](call.op = "get_metrics" =>
            ret.requests_total = ret.requests_successful + ret.requests_failed)
    /\ [][\A th \in Threads : RecordRequestReturns(th) =>
              LET before == hm_frame[th].entry
                  ok == hm_frame[th].success
              IN  /\ hm_metrics.requests_total = before.requests_total + 1
                  /\ hm_metrics.requests_successful
                     = before.requests_successful + (IF ok THEN 1 ELSE 0)
                  /\ hm_metrics.requests_failed
                     = before.requests_failed + (IF ok THEN 0 ELSE 1)]_vars

\* get_metrics returned a tally with a failed and a successful request while
\* another thread's record_request was waiting for the lock
C18_Witness ==
    /\ call.op = "get_metrics"
    /\ ret.requests_successful = 1
    /\ ret.requests_failed = 1
    /\ \E th \in Threads : hm_pc[th] = "with" /\ hm_frame[th].op = "record_request"

\* the JSON body is an object with every required field
ProvidesFields(json) ==
    /\ json.kind = "object"
    /\ \A i \in 1..Len(RequiredUploadFields) : RequiredUploadFields[i] \in json.has

\* what "in" finds in the body: every required field (in an object, or as
\* an element of an array or a piece of a string)
PassesValidation(json) ==
    /\ json.truthy
    /\ json.kind # "number"
    /\ \A i \in 1..Len(RequiredUploadFields) : RequiredUploadFields[i] \in json.has

\* C19: the stages of POST /api/upload run in a fixed order.  The limiter
\* decides first; a request it rejects is answered 429 with neither the
\* validation nor the view having run; the validation runs for every
\* admitted request, and the view runs only when the validation let the
\* body through.
C19_StageOrder ==
    [][/\ (rejected' # rejected /\ resp'.route = "upload_file") =>
              (resp'.status = 429 /\ resp'.stages = <<"rate_limit">>)
       /\ (admitted' # admitted /\ resp'.route = "upload_file") =>
              /\ resp'.status # 429
              /\ Len(resp'.stages) >= 2
              /\ SubSeq(resp'.stages, 1, 2) = <<"rate_limit", "require_validation">>
              /\ IF PassesValidation(resp'.json)
                 THEN resp'.stages = <<"rate_limit", "require_validation", "upload_file">>
                 ELSE resp'.stages = <<"rate_limit", "require_validation">>]_vars

\* an upload that lacks a field is turned away by the limiter, after one
\* that the validation turned away
C19_Witness ==
    /\ resp # None
    /\ resp.route = "upload_file"
    /\ resp.status = 429
    /\ resp.stages = <<"rate_limit">>
    /\ ~PassesValidation(resp.json)
    /\ completed > max_requests

\* C20: every admitted request to POST /api/upload whose body does not
\* provide all the required fields, whatever its JSON type, is answered 400
\* with the missing field named, never 200 or 500.
C20_MissingFieldIs400 ==
    (/\ resp # None
     /\ resp.route = "upload_file"
     /\ resp.status # 429
     /\ ~ProvidesFields(resp.json))
    => /\ resp.status = 400
       /\ \E i \in 1..Len(RequiredUploadFields) :
              resp.body = [error |-> <<"Missing required field", RequiredUploadFields[i]>>]

ValidatorOps ==
    {"sanitize_string", "validate_email", "validate_numeric", "validate_json",
     "sanitize_filename"}

\* C21: every InputValidator operation, given a value of any type, returns
\* or fails with a SecurityError that carries a reason, never with another
\* error; so POST /api/upload answers an invalid filename 400 and not 500.
C21_OnlySecurityErrors ==
    /\ call.op \in ValidatorOps =>
           \/ exc = "none"
           \/ exc = "SecurityError" /\ ret.reason # ""
    /\ (call.op = "upload_file" /\ sanitize_filename(call.args[1]).error # "none")
           => ret.status = 400

Contains(s, class) == \E i \in 1..Len(s) : s[i] \in class

\* C22: sanitize_string fails with "Input too long" for every string longer
\* than max_length (measured on the input as given), with "Input must be a
\* string" for every value that is not text, and otherwise returns a string
\* with no control character, no raw < > & " ' and no whitespace at either
\* end.
C22_SanitizeString ==
    call.op = "sanitize_string" =>
        LET value == call.args[1] IN
        IF value.kind # "str"
        THEN exc = "SecurityError" /\ ret.reason = "Input must be a string"
        ELSE IF Len(value.chars) > max_length
        THEN exc = "SecurityError" /\ ret.reason = "Input too long"
        ELSE /\ exc = "none"
             /\ ret.value.kind = "str"
             /\ ~Contains(ret.value.chars, ControlChars)
             /\ ~Contains(ret.value.chars, DOMAIN Entity)
             /\ ret.value.chars # <<>> =>
                    /\ Head(ret.value.chars) \notin Whitespace
                    /\ ret.value.chars[Len(ret.value.chars)] \notin Whitespace

\* a string within the bound holding a control character and a character
\* html.escape rewrites has been sanitized
C22_Witness ==
    /\ call.op = "sanitize_string"
    /\ call.args[1].kind = "str"
    /\ Contains(call.args[1].chars, ControlChars)
    /\ Contains(call.args[1].chars, DOMAIN Entity)
    /\ exc = "none"
    /\ Len(ret.value.chars) = 1

\* the characters of [A-Za-z0-9_-] that occur in the inputs
AsciiNameChars == AsciiAlnum \cup {"_", "-"}

\* C23: sanitize_filename fails with "Filename is required" on the empty
\* string and with "Invalid filename" when cleaning leaves nothing; every
\* filename it returns is non-empty, holds no '.', '/' or '\' and consists
\* only of characters of [A-Za-z0-9_-].
C23_SanitizeFilename ==
    (call.op = "sanitize_filename" /\ call.args[1].kind = "str") =>
        LET chars == call.args[1].chars IN
        IF chars = <<>>
        THEN exc = "SecurityError" /\ ret.reason = "Filename is required"
        ELSE \/ /\ exc = "SecurityError"
                /\ ret.reason = "Invalid filename"
                /\ ~Contains(chars, AsciiNameChars \cup PathChars)
             \/ /\ exc = "none"
                /\ ret.value.chars # <<>>
                /\ ~Contains(ret.value.chars, PathChars)
                /\ \A i \in 1..Len(ret.value.chars) :
                       ret.value.chars[i] \in AsciiNameChars

\* the values that denote a real number, and the number: an int, or text
\* that is a decimal numeral once stripped
IsReal(value) ==
    \/ value.kind = "int"
    \/ value.kind = "str" /\ Len(strip(value.chars)) = 1
                          /\ strip(value.chars)[1] \in DOMAIN DigitValue

RealOf(value) ==
    IF value.kind = "int" THEN value.n ELSE DigitValue[strip(value.chars)[1]]

\* an int too large for a float, hence above every max_val
IsBig(value) == value.kind = "int" /\ value.big

\* C24: validate_numeric fails with "Input must be a valid number" for every
\* value that does not denote a real number and with an out-of-range error
\* when the number is below min_val or above max_val; every value r it
\* returns is a real number with r >= min_val and r <= max_val when given.
C24_ValidateNumeric ==
    call.op = "validate_numeric" =>
        LET value == call.args[1]
            min_val == call.args[2]
            max_val == call.args[3]
        IN  /\ ~IsReal(value) =>
                   exc = "SecurityError" /\ ret.reason = "Input must be a valid number"
            /\ (IsReal(value) /\ ~IsBig(value) /\ min_val # NoneV /\ RealOf(value) < min_val.n) =>
                   exc = "SecurityError" /\ ret.reason = "Value must be at least"
            /\ (IsReal(value) /\ max_val # NoneV /\ (IsBig(value) \/ RealOf(value) > max_val.n)) =>
                   exc = "SecurityError"
            /\ exc \in {"none", "SecurityError"}
            /\ exc = "none" =>
                   /\ ret.value.kind = "float" /\ ret.value.cls = "finite"
                   /\ min_val # NoneV => ret.value.n >= min_val.n
                   /\ max_val # NoneV => ret.value.n <= max_val.n

\* the nesting limit of the specification, 64 there
DepthLimit == 2

Max(S) == CHOOSE x \in S : \A y \in S : y <= x

\* containers around the most deeply nested value
RECURSIVE Depth(_)
Depth(value) ==
    CASE value.kind = "list" ->
             1 + Max({0} \cup {Depth(value.items[i]) : i \in 1..Len(value.items)})
      [] value.kind = "dict" ->
             1 + Max({0} \cup {Depth(value.items[i].v) : i \in 1..Len(value.items)})
      [] OTHER -> 0

\* C25: sanitize_input terminates on every input, and an input nested deeper
\* than the limit is rejected with the validation error "Input too deep", so
\* that POST /api/config and POST /api/validate answer it 400.
C25_TooDeepRejected ==
    (call.op \in {"sanitize_input", "config_endpoint", "validate_data"}
        /\ Depth(call.args[1]) > DepthLimit) =>
        IF call.op = "sanitize_input"
        THEN exc = "SecurityError" /\ ret.reason = "Input too deep"
        ELSE ret.status = 400

\* out has the shape of data, with every string replaced by what
\* sanitize_string returns for it and every other leaf as it was
RECURSIVE Sanitized(_, _)
Sanitized(data, out) ==
    CASE data.kind = "str" ->
             /\ sanitize_string(data, max_length).error = "none"
             /\ out = sanitize_string(data, max_length).value
      [] data.kind = "list" ->
             /\ out.kind = "list"
             /\ Len(out.items) = Len(data.items)
             /\ \A i \in 1..Len(data.items) : Sanitized(data.items[i], out.items[i])
      [] data.kind = "dict" ->
             /\ out.kind = "dict"
             /\ Len(out.items) = Len(data.items)
             /\ \A i \in 1..Len(data.items) :
                    /\ out.items[i].k = data.items[i].k
                    /\ Sanitized(data.items[i].v, out.items[i].v)
      [] OTHER -> out = data

\* the reasons for which sanitize_string rejects the strings inside data
RECURSIVE Rejections(_)
Rejections(data) ==
    CASE data.kind = "str" ->
             IF sanitize_string(data, max_length).error = "none" THEN {}
             ELSE {sanitize_string(data, max_length).reason}
      [] data.kind = "list" ->
             UNION {Rejections(data.items[i]) : i \in 1..Len(data.items)}
      [] data.kind = "dict" ->
             UNION {Rejections(data.items[i].v) : i \in 1..Len(data.items)}
      [] OTHER -> {}

\* C26: sanitize_input returns a structure of the same shape as its input
\* (same keys, same list lengths and order) in which every string is
\* replaced by its sanitize_string result and every other leaf is unchanged;
\* if a contained string is rejected, the whole call fails with that
\* validation error.  (For inputs the interpreter's recursion limit admits;
\* deeper ones are the subject of C25.)
C26_SameShape ==
    (call.op = "sanitize_input" /\ Depth(call.args[1]) < RecursionLimit) =>
        IF Rejections(call.args[1]) = {}
        THEN exc = "none" /\ Sanitized(call.args[1], ret.value)
        ELSE exc = "SecurityError" /\ ret.reason \in Rejections(call.args[1])

\* a dict inside a list, holding a string that html.escape rewrites, next to
\* a string that strip() shortens: both are replaced in place
C26_Witness ==
    /\ call.op = "sanitize_input"
    /\ call.args[1] = ListV(<<DictV(<<[v |-> Text(<<"<">>), k |-> <<"<">>]>>),
                              Text(<<" ", "a">>)>>)
    /\ exc = "none"
    /\ ret.value = ListV(<<DictV(<<[v |-> Text(<<"&lt;">>), k |-> <<"<">>]>>),
                           Text(<<"a">>)>>)

\* C27: every admitted GET /health is answered 200 with the JSON body
\* {'status': 'ok'}, the first request and every later one.
C27_HealthIsOk ==
    (resp # None /\ resp.route = "health" /\ resp.status # 429) =>
        resp.status = 200 /\ resp.body = [status |-> "ok"]

\* a thread whose next statement enters a with block
AtAcquire(th) == Running(th) /\ NextStatement(th)[1] = "acquire"

\* C28: no operation of the Metrics Collector, the Health Monitor or the
\* Rate Limiter acquires a lock while it holds one; hence some running call
\* can always take a step (no deadlock) and every call eventually returns.
C28_NoNestedLocks ==
    /\ [](\A th \in Threads : AtAcquire(th) => Held(th) = {})
    /\ []((\E th \in Threads : Running(th)) =>
              \E th \in Threads :
                  Running(th) /\ (AtAcquire(th) =>
                                     LockAvailable(LockOf(NextStatement(th)[2]))))
    /\ \A th \in Threads : Running(th) ~> ~Running(th)

\* both locks are held, by different threads, after a first call has
\* returned: the calls of the two components overlap
C28_Witness ==
    /\ hm_lock # "free"
    /\ mc_lock # "free"
    /\ hm_lock # mc_lock
    /\ mc_frame[mc_lock].op = "GET /health"
    /\ completed >= 1

\* the calls of op on the collector that have returned
ReturnedCalls(op) == Cardinality({i \in 1..Len(mc_log) : mc_log[i].op = op})

\* C29: concurrent updates are never lost: once the calls have returned,
\* the counter holds the number of increment_counter calls of value 1, the
\* histogram's _count the number of record_histogram calls and
\* requests_total the number of record_request calls, whatever threads made
\* them.
C29_NoLostUpdate ==
    (\A th \in Threads : mc_pc[th] = "idle") =>
        /\ ValueOf(mc_metrics, UpdatedKey("increment_counter"))
               = ReturnedCalls("increment_counter")
        /\ ValueOf(mc_metrics, UpdatedKey("record_histogram"))
               = ReturnedCalls("record_histogram")
        /\ hm_metrics.requests_total = completed

\* two increments have returned and the counter holds 2, while a
\* record_request call is between its read and its write
C29_Witness ==
    /\ ReturnedCalls("increment_counter") = 2
    /\ ValueOf(mc_metrics, UpdatedKey("increment_counter")) = 2
    /\ \E th \in Threads : mc_pc[th] = "write" /\ mc_frame[th].op = "record_request"

\* the step is an is_allowed call for ip that returned
IsAllowedReturned(ip) == admitted'[ip] # admitted[ip] \/ rejected'[ip] # rejected[ip]

NonDecreasing(seq) == \A i \in 1..(Len(seq) - 1) : seq[i] <= seq[i + 1]

\* C30: after is_allowed(ip) at time now returns, the window stored for ip
\* holds exactly the timestamps of the admitted calls newer than
\* now - window_size, in non-decreasing order and none later than now; a
\* rejected call adds no timestamp.
C30_StoredWindow ==
    [][\A ip \in IPs :
          IsAllowedReturned(ip) =>
              /\ ip \in DOMAIN requests'
              /\ requests'[ip] =
                     SelectSeq(admitted'[ip], LAMBDA t : t > now - window_size)
              /\ NonDecreasing(requests'[ip])
              /\ \A i \in 1..Len(requests'[ip]) : requests'[ip][i] <= now
              /\ rejected'[ip] # rejected[ip] =>
                     /\ admitted'[ip] = admitted[ip]
                     /\ ip \in DOMAIN requests
                     /\ requests'[ip] =
                            SelectSeq(requests[ip], LAMBDA t : t > now - window_size)]_vars

\* a key has been rejected, and older admissions of it have left its window
\* while newer ones are still stored
C30_Witness ==
    \E ip \in IPs :
        /\ rejected[ip] > 0
        /\ ip \in DOMAIN requests
        /\ requests[ip] # <<>>
        /\ Len(requests[ip]) < Len(admitted[ip])

\* C31: a key whose stored window holds max_requests entries is admitted by
\* an is_allowed call made at a time now at which the earliest stored
\* timestamp t0 satisfies t0 <= now - window_size, and rejected by every call
\* made before that time.
C31_AdmittedOnceAgedOut ==
    [][\A ip \in IPs :
          (/\ IsAllowedReturned(ip)
           /\ ip \in DOMAIN requests
           /\ Len(requests[ip]) = max_requests) =>
              IF requests[ip][1] <= now - window_size
              THEN admitted'[ip] = Append(admitted[ip], now)
              ELSE rejected'[ip] = rejected[ip] + 1 /\ admitted'[ip] = admitted[ip]]_vars

\* a key was rejected with a full window and has just been admitted again,
\* the admission that filled the window having aged out
C31_Witness ==
    \E ip \in IPs :
        /\ rejected[ip] > 0
        /\ Len(admitted[ip]) > max_requests
        /\ admitted[ip][Len(admitted[ip])] = now
        /\ admitted[ip][Len(admitted[ip]) - max_requests] <= now - window_size
        /\ admitted[ip][Len(admitted[ip]) - 1] < now

\* the series of one answered request: its counter and its histogram _count
RequestCounterKey(r) ==
    get_metric_key(<<"http", "requests", "total">>,
                   [k \in {"method", "endpoint", "status"} |->
                       CASE k = "method" -> Method(r.route)
                         [] k = "endpoint" -> EndpointText(r.route)
                         [] k = "status" -> StatusText(r.status)])

RequestCountKey(r) ==
    CountKey(<<"http", "request", "duration", "seconds">>,
             [k \in {"method", "endpoint"} |->
                 IF k = "method" THEN Method(r.route) ELSE EndpointText(r.route)])

\* C32: after every completed HTTP request, whatever its status (429, 400
\* and requests that matched no route included), the request counter series
\* of its (method, endpoint, status) labels has increased by exactly 1 and so
\* has the _count of the duration histogram of its (method, endpoint) labels.
C32_EveryRequestCounted ==
    [][completed' = completed + 1 =>
          /\ ValueOf(mc_metrics', RequestCounterKey(resp'))
                 = ValueOf(mc_metrics, RequestCounterKey(resp')) + 1
          /\ ValueOf(mc_metrics', RequestCountKey(resp'))
                 = ValueOf(mc_metrics, RequestCountKey(resp')) + 1]_vars

\* a rate-limit rejection has just been counted, after the requests that
\* filled the window were counted under their own status
C32_Witness ==
    /\ resp # None
    /\ resp.status = 429
    /\ ValueOf(mc_metrics, RequestCounterKey(resp)) = 1
    /\ ValueOf(mc_metrics, RequestCountKey(resp)) >= 1
    /\ completed = 3

\* the classification of the samples and the rate a snapshot holds
ClassOf(s) ==
    IF UnhealthyCond(s.cpu_percent, s.memory_percent, s.disk_percent, s.success_rate)
    THEN "unhealthy"
    ELSE IF DegradedCond(s.cpu_percent, s.memory_percent, s.disk_percent, s.success_rate)
    THEN "degraded"
    ELSE "healthy"

\* C33: every snapshot get_system_health returns is internally consistent,
\* also when record_request or reset_metrics run concurrently with it: its
\* success_rate lies in [0, 1] and equals requests_successful /
\* requests_total of the same snapshot (1.0 when that total is 0), and its
\* status is the classification of the samples and the success_rate stored
\* in that snapshot.
C33_SnapshotConsistent ==
    (call.op = "get_system_health" /\ ret.status # "error") =>
        /\ ret.success_rate.den > 0
        /\ 0 <= ret.success_rate.num
        /\ ret.success_rate.num <= ret.success_rate.den
        /\ IF ret.requests_total = 0
           THEN ret.success_rate.num = ret.success_rate.den
           ELSE ret.success_rate.num * ret.requests_total
                    = ret.requests_successful * ret.success_rate.den
        /\ ret.status = ClassOf(ret)

\* the window stored for a key; a key never seen has none
WindowOf(reqs, ip) == IF ip \in DOMAIN reqs THEN reqs[ip] ELSE <<>>

\* C34: is_allowed(ip) reads and changes only the window of ip.  The windows
\* of all other keys, and which other keys are stored, are unchanged by the
\* call, and the call admits exactly when ip's own window holds fewer than
\* max_requests timestamps newer than now - window_size, whatever the other
\* clients have requested.
C34_OnlyOwnWindow ==
    [][\A ip \in IPs :
          IsAllowedReturned(ip) =>
              /\ \A other \in IPs \ {ip} :
                    /\ other \in DOMAIN requests' <=> other \in DOMAIN requests
                    /\ WindowOf(requests', other) = WindowOf(requests, other)
                    /\ admitted'[other] = admitted[other]
                    /\ rejected'[other] = rejected[other]
              /\ admitted'[ip] # admitted[ip] <=>
                    Len(SelectSeq(WindowOf(requests, ip),
                                  LAMBDA t : t > now - window_size)) < max_requests]_vars

\* one client was just admitted while the other's window is full of
\* timestamps that have aged out and are still stored
C34_Witness ==
    \E ip \in IPs, other \in IPs :
        /\ ip # other
        /\ other \in DOMAIN requests
        /\ Len(requests[other]) = max_requests
        /\ requests[other][max_requests] <= now - window_size
        /\ ip \in DOMAIN requests
        /\ Len(requests[ip]) > 0
        /\ requests[ip][Len(requests[ip])] = now
        /\ rejected[other] > 0

\* every string a value holds: its text leaves and the keys of its dicts
RECURSIVE StringsOf(_)
StringsOf(value) ==
    CASE value.kind = "str" -> {value.chars}
      [] value.kind = "list" ->
             UNION {StringsOf(value.items[i]) : i \in 1..Len(value.items)}
      [] value.kind = "dict" ->
             UNION {{value.items[i].k} \cup StringsOf(value.items[i].v) :
                       i \in 1..Len(value.items)}
      [] OTHER -> {}

HtmlSafe(value) ==
    \A s \in StringsOf(value) :
        ~Contains(s, ControlChars) /\ ~Contains(s, DOMAIN Entity)

\* C35: no string anywhere in the value sanitize_input returns, the keys of
\* its dicts included, holds a control character or a raw < > & " ', and
\* so the data POST /api/config and POST /api/validate echo back in a 200
\* reply is safe to embed in HTML.
C35_OutputHtmlSafe ==
    /\ (call.op = "sanitize_input" /\ exc = "none") => HtmlSafe(ret.value)
    /\ (call.op = "config_endpoint" /\ ret.status = 200) => HtmlSafe(ret.body.data)
    /\ (call.op = "validate_data" /\ ret.status = 200) => HtmlSafe(ret.body.sanitized_data)
====
